---- MODULE Spec2Model ----
(***************************************************************************)
(* Debate orchestration engine of multi-ai-discussion: the session state   *)
(* machine (DebateOrchestrator), the round executor (RoundManager), the    *)
(* convergence evaluator (Moderator), the synthesizer (Synthesizer), the   *)
(* configuration validation and the HTTP server that runs sessions in the  *)
(* background.                                                             *)
(*                                                                         *)
(* Numbers are JavaScript numbers in fixed point, one unit = 0.1, with the *)
(* non-finite values NaN, +Infinity and -Infinity kept apart.  Text is a   *)
(* sequence of tokens; the token " " is white space, every other token is  *)
(* a run of non-blank characters (a literal of the source is one token).   *)
(* The substrings the code or its consumers search for ("401", "failed")   *)
(* are tokens of their own wherever they occur in a text.                  *)
(***************************************************************************)
EXTENDS Integers, Sequences, FiniteSets, TLC

VARIABLES
    sessions,    \* session id -> DebateSession (or the absent session)
    orch,        \* orchestrator id -> its moderator / synthesizer fields
    runs,        \* run id -> activation record of runDebate / continueDebate
    step,        \* what the latest step did: status assignments, calls issued
    calls,       \* evaluator and synthesizer requests sent so far
    mInput,      \* evaluateConvergence or synthesize under test: its arguments
    mResult,     \* evaluateConvergence or synthesize under test: its outcome
    rm,          \* one activation of RoundManager.executeRound, attempt by attempt
    clients      \* the server's event-stream clients: session and events received

vars == <<sessions, orch, runs, step, calls, mInput, mResult, rm, clients>>

(***************************************************************************)
(* JavaScript numbers                                                      *)
(***************************************************************************)
Num(v) == [k |-> "num", v |-> v]
NaN == [k |-> "nan", v |-> 0]
PosInf == [k |-> "inf", v |-> 1]
NegInf == [k |-> "inf", v |-> -1]

\* n whole units as a fixed-point number (session.rounds.length, the literal 1)
Whole(n) == Num(10 * n)

IsNaN(a) == a.k = "nan"
IsFinite(a) == a.k = "num"

\* a < b of JavaScript: false as soon as one side is NaN
NumLess(a, b) ==
    /\ ~IsNaN(a)
    /\ ~IsNaN(b)
    /\ \/ a.k = "num" /\ b.k = "num" /\ a.v < b.v
       \/ a = NegInf /\ b # NegInf
       \/ b = PosInf /\ a # PosInf

\* a <= b of JavaScript
NumLeq(a, b) == ~IsNaN(a) /\ ~IsNaN(b) /\ (a = b \/ NumLess(a, b))

\* a >= b of JavaScript
NumGeq(a, b) == NumLeq(b, a)

\* a > b of JavaScript
NumGreater(a, b) == NumLess(b, a)

\* Math.min / Math.max: NaN if either argument is NaN
MathMin(a, b) == IF IsNaN(a) \/ IsNaN(b) THEN NaN ELSE IF NumLess(a, b) THEN a ELSE b
MathMax(a, b) == IF IsNaN(a) \/ IsNaN(b) THEN NaN ELSE IF NumLess(a, b) THEN b ELSE a

\* a + n for a whole number n of units
NumAddWhole(a, n) == IF a.k = "num" THEN Num(a.v + 10 * n) ELSE a

(***************************************************************************)
(* Text                                                                    *)
(***************************************************************************)
IsSpace(c) == c = " "

RECURSIVE TrimLeft(_)
TrimLeft(s) == IF s # <<>> /\ IsSpace(Head(s)) THEN TrimLeft(Tail(s)) ELSE s

RECURSIVE TrimRight(_)
TrimRight(s) ==
    IF s # <<>> /\ IsSpace(s[Len(s)]) THEN TrimRight(SubSeq(s, 1, Len(s) - 1)) ELSE s

\* String.prototype.trim
Trim(s) == TrimRight(TrimLeft(s))

\* String.prototype.includes for a searched substring that is a token
Contains(s, token) == \E i \in 1..Len(s) : s[i] = token

\* optional values (undefined / defined)
None == [some |-> FALSE]
Some(x) == [some |-> TRUE, val |-> x]

(***************************************************************************)
(* Chat client: one call resolves with a response or rejects with an Error *)
(***************************************************************************)
ChatOk(content) == [ok |-> TRUE, content |-> content, err |-> <<>>]
ChatErr(msg) == [ok |-> FALSE, content |-> <<>>, err |-> msg]

\* `API request failed: ${status} ${statusText} - ${errorText}`
HttpError(status, statusText, errorText) ==
    <<"API request ", "failed", ": ", status, statusText, " - ">> \o errorText

ErrNetwork == HttpError("500", " Internal Server Error", <<"e">>)
ErrAuth == HttpError("401", " Unauthorized", <<"e">>)
\* a server error whose body text happens to hold the digits 401
ErrServerBody401 == HttpError("500", " Internal Server Error", <<"id 7", "401", "9">>)

\* the HTTP status of a rejected call is 401 Unauthorized
IsUnauthorized(msg) == Len(msg) >= 4 /\ msg[1] = "API request " /\ msg[4] = "401"

\* message.content of a resolved call that is null instead of a string
NullContent == <<"null (not a string)">>

(***************************************************************************)
(* Moderator                                                               *)
(***************************************************************************)
\* JSON values as typeof sees them
JBool(b) == [ty |-> "boolean", b |-> b, n |-> Num(0)]
JNum(n) == [ty |-> "number", b |-> FALSE, n |-> n]
JStr == [ty |-> "string", b |-> FALSE, n |-> Num(0)]
JMissing == [ty |-> "undefined", b |-> FALSE, n |-> Num(0)]

\* The segments of a moderator reply: prose without braces, a stray brace,
\* or the text of one well-formed JSON object with the three fields.
Prose == [t |-> "prose", isConverged |-> JMissing, confidenceScore |-> JMissing,
          reasoning |-> JMissing]
LBrace == [t |-> "{", isConverged |-> JMissing, confidenceScore |-> JMissing,
           reasoning |-> JMissing]
RBrace == [t |-> "}", isConverged |-> JMissing, confidenceScore |-> JMissing,
           reasoning |-> JMissing]
Obj(ic, cs, re) == [t |-> "obj", isConverged |-> ic, confidenceScore |-> cs,
                    reasoning |-> re]

SegText(seg) == IF seg.t = "prose" THEN "p" ELSE IF seg.t = "obj" THEN "{json}" ELSE seg.t

\* content.substring(0, 200) of a reply, as text
RawContent(content) == [i \in 1..Len(content) |-> SegText(content[i])]

HasOpen(seg) == seg.t \in {"{", "obj"}
HasClose(seg) == seg.t \in {"}", "obj"}

\* content.match(/\{[\s\S]*\}/): greedy, from the first "{" to the last "}"
JsonMatch(content) ==
    LET opens == {i \in 1..Len(content) : HasOpen(content[i])}
        closes == {i \in 1..Len(content) : HasClose(content[i])}
    IN  IF opens = {} \/ closes = {} THEN None
        ELSE LET first == CHOOSE i \in opens : \A j \in opens : i <= j
                 last == CHOOSE i \in closes : \A j \in closes : i >= j
             IN  IF last > first \/ (last = first /\ content[first].t = "obj")
                 THEN Some(SubSeq(content, first, last))
                 ELSE None

\* JSON.parse of the matched text: it parses only if it is one object
JsonParses(matched) == Len(matched) = 1 /\ matched[1].t = "obj"

Assessment(ic, cs, re) == [isConverged |-> ic, confidenceScore |-> cs, reasoning |-> re]

\* variant of the clamp below without its upper limit (sensitivity of C10)
ClampScore_NoUpper(x) == MathMax(Whole(0), x)

\* Math.max(0, Math.min(1, parsed.confidenceScore))
ClampScore(x) == MathMax(Whole(0), MathMin(Whole(1), x))

\* variant of the decision below that ignores the threshold (sensitivity of C11)
ConvergenceDecision_FlagOnly(rawFlag, clamped, threshold) == rawFlag

\* parsed.isConverged && clampedScore >= threshold
ConvergenceDecision(rawFlag, clamped, threshold) == rawFlag /\ NumGeq(clamped, threshold)

\* the catch branch of parseConvergenceResponse
ParseFallback(msg, content) ==
    Assessment(FALSE, Whole(0),
               <<"Failed", " to parse moderator response: ", msg, ". Raw content: ">>
                   \o RawContent(content) \o <<"...">>)

parseConvergenceResponse(content, threshold) ==
    LET m == JsonMatch(content) IN
    IF ~m.some THEN ParseFallback("No JSON found in response", content)
    ELSE IF ~JsonParses(m.val) THEN ParseFallback("SyntaxError", content)
    ELSE LET parsed == m.val[1] IN
         IF parsed.isConverged.ty # "boolean"
         THEN ParseFallback("isConverged must be a boolean", content)
         ELSE IF parsed.confidenceScore.ty # "number"
         THEN ParseFallback("confidenceScore must be a number", content)
         ELSE IF parsed.reasoning.ty # "string"
         THEN ParseFallback("reasoning must be a string", content)
         ELSE LET clampedScore == ClampScore(parsed.confidenceScore.n) IN
              Assessment(ConvergenceDecision(parsed.isConverged.b, clampedScore, threshold),
                         clampedScore, <<"r">>)

\* the catch branch of evaluateConvergence
ModeratorFallback(msg) ==
    Assessment(FALSE, Whole(0), <<"Moderator evaluation ", "failed", ": ">> \o msg)

\* the chatCompletion requests evaluateConvergence sends
ModeratorRequests(rounds, model) ==
    IF Len(rounds) = 0 THEN {} ELSE {[sid |-> 0, kind |-> "moderator", model |-> model]}

\* evaluateConvergence without its guard on an empty round list
evaluateConvergence_Unguarded(reply, rounds, threshold) ==
    IF ~reply.ok THEN ModeratorFallback(reply.err)
    ELSE IF reply.content = <<>>
    THEN ModeratorFallback(<<"No response content from moderator">>)
    ELSE parseConvergenceResponse(reply.content, threshold)

\* evaluateConvergence, given what the chat call resolved to
evaluateConvergence(reply, rounds, threshold) ==
    IF Len(rounds) = 0
    THEN Assessment(FALSE, Whole(0), <<"No rounds to evaluate">>)
    ELSE IF ~reply.ok THEN ModeratorFallback(reply.err)
    ELSE IF reply.content = <<>>
    THEN ModeratorFallback(<<"No response content from moderator">>)
    ELSE parseConvergenceResponse(reply.content, threshold)

(***************************************************************************)
(* Configuration                                                           *)
(***************************************************************************)
AVAILABLE_MODELS == {"deepseek", "supermind-agent-v1", "gemini-2.5-pro", "gpt-5", "grok-4-fast"}

DebateConfig(topic, models, maxRounds, threshold, moderatorModel, synthesizerModel) ==
    [topic |-> topic, models |-> models, maxRounds |-> maxRounds,
     convergenceThreshold |-> threshold, moderatorModel |-> moderatorModel,
     synthesizerModel |-> synthesizerModel]

\* one field name per error pushed, in the order of the checks
validateDebateConfig(config) ==
    (IF Trim(config.topic) = <<>> THEN <<"topic">> ELSE <<>>)
    \o (IF Len(config.models) < 2 THEN <<"models">> ELSE <<>>)
    \o (IF \E i \in 1..Len(config.models) : config.models[i] \notin AVAILABLE_MODELS
        THEN <<"models">> ELSE <<>>)
    \o (IF NumLeq(config.maxRounds, Whole(0)) THEN <<"maxRounds">> ELSE <<>>)
    \o (IF NumLess(config.convergenceThreshold, Whole(0))
           \/ NumGreater(config.convergenceThreshold, Whole(1))
        THEN <<"convergenceThreshold">> ELSE <<>>)
    \o (IF config.moderatorModel \notin AVAILABLE_MODELS THEN <<"moderatorModel">> ELSE <<>>)
    \o (IF config.synthesizerModel \notin AVAILABLE_MODELS
        THEN <<"synthesizerModel">> ELSE <<>>)

IsValid(config) == validateDebateConfig(config) = <<>>

(***************************************************************************)
(* Session                                                                 *)
(***************************************************************************)
NoSession == [exists |-> FALSE]

\* the event-stream clients the server can have
ClientIds == {1, 2}

\* a client that has not sent GET /api/debate/:id/stream
NoClient == [subscribed |-> FALSE, sid |-> 0, events |-> {}]

NoClients == [c \in ClientIds |-> NoClient]

\* the values randomUUID can return
UUIDs == {"uuid-1", "uuid-2", "uuid-3"}

\* the identifiers of the sessions created so far
IssuedIds == {sessions[s].id : s \in {x \in DOMAIN sessions : sessions[x].exists}}

\* variant of the identifier below that is the same at every call (sensitivity of C31)
randomUUID_Fixed == "uuid-1"

\* crypto.randomUUID(): 122 random bits, taken as a value that no earlier call
\* of the process returned
randomUUID == CHOOSE u \in UUIDs : u \notin IssuedIds

\* DebateSessionManager.createSession
NewSession(config) ==
    [exists |-> TRUE, id |-> randomUUID, config |-> config, rounds |-> <<>>,
     status |-> "pending", finalAnswer |-> None, convergenceAssessment |-> None]

AgentResponse(model, content, error) == [model |-> model, content |-> content, error |-> error]

DebateRound(roundNumber, responses) ==
    [roundNumber |-> roundNumber, responses |-> responses, convergenceCheck |-> None]

(***************************************************************************)
(* RoundManager                                                            *)
(***************************************************************************)
maxRetries == 3

\* error.message.includes('401')
Is401(msg) == Contains(msg, "401")

\* A schedule is what the successive chatCompletion calls of one participant
\* resolve to; it is complete when the retry loop consumes all of it.
IsCompleteSchedule(sched) ==
    /\ Len(sched) \in 1..maxRetries
    /\ \A i \in 1..(Len(sched) - 1) : ~sched[i].ok /\ ~Is401(sched[i].err)
    /\ \/ sched[Len(sched)].ok
       \/ Is401(sched[Len(sched)].err)
       \/ Len(sched) = maxRetries

RECURSIVE AttemptLoop(_, _, _)
AttemptLoop(model, sched, attempt) ==
    LET r == sched[attempt] IN
    IF r.ok THEN AgentResponse(model, r.content, None)
    ELSE IF Is401(r.err) \/ attempt >= maxRetries
    THEN AgentResponse(model, <<>>,
                       Some(<<"Failed after ", "3", " attempts: ">> \o r.err))
    ELSE AttemptLoop(model, sched, attempt + 1)

getAgentResponse(model, sched) == AttemptLoop(model, sched, 1)

\* variant of the numbering below that starts at 0 (sensitivity of C6)
RoundNumberFor_ZeroBased(rounds) == Len(rounds)

\* const roundNumber = session.rounds.length + 1
RoundNumberFor(rounds) == Len(rounds) + 1

\* the round executeRound resolves to, one schedule per configured participant
executeRound(roundNumber, models, scheds) ==
    DebateRound(roundNumber, [i \in 1..Len(models) |-> getAgentResponse(models[i], scheds[i])])

\* chatCompletion calls of a round beyond the first attempt of each participant
RetryCalls(scheds) ==
    LET RECURSIVE Sum(_)
        Sum(i) == IF i = 0 THEN 0 ELSE Sum(i - 1) + (Len(scheds[i]) - 1)
    IN  Sum(Len(scheds))

(***************************************************************************)
(* Synthesizer                                                             *)
(***************************************************************************)
KeyPointLength == 200

Take(s, n) == SubSeq(s, 1, IF Len(s) < n THEN Len(s) ELSE n)

\* content.trim().substring(0, 200) + (content.length > 200 ? '...' : '')
KeyPoint(content) ==
    Take(Trim(content), KeyPointLength)
        \o (IF Len(content) > KeyPointLength THEN <<"...">> ELSE <<>>)

\* all responses of all rounds, in round order then response order
RECURSIVE AllResponses(_)
AllResponses(rounds) ==
    IF rounds = <<>> THEN <<>> ELSE Head(rounds).responses \o AllResponses(Tail(rounds))

Contributes(resp) == ~resp.error.some /\ Trim(resp.content) # <<>>

\* the keys of agentContributions, in insertion order
RECURSIVE ContributorOrder(_, _)
ContributorOrder(resps, seen) ==
    IF resps = <<>> THEN <<>>
    ELSE IF Contributes(Head(resps)) /\ Head(resps).model \notin seen
    THEN <<Head(resps).model>> \o ContributorOrder(Tail(resps), seen \cup {Head(resps).model})
    ELSE ContributorOrder(Tail(resps), seen)

\* the "- ..." lines of one agent: the forEach callback returns after each
\* element, so every contribution is written
RECURSIVE ContributionLines(_, _)
ContributionLines(resps, model) ==
    IF resps = <<>> THEN <<>>
    ELSE (IF Contributes(Head(resps)) /\ Head(resps).model = model
          THEN <<"- ">> \o KeyPoint(Head(resps).content) \o <<"\n">>
          ELSE <<>>)
         \o ContributionLines(Tail(resps), model)

RECURSIVE PerspectiveBlocks(_, _)
PerspectiveBlocks(order, resps) ==
    IF order = <<>> THEN <<>>
    ELSE <<Head(order), ":\n">> \o ContributionLines(resps, Head(order)) \o <<"\n">>
         \o PerspectiveBlocks(Tail(order), resps)

createFallbackSynthesis(topic, rounds, msg) ==
    LET resps == AllResponses(rounds) IN
    <<"Final Answer for: \"">> \o topic \o <<"\"\n\n">>
    \o <<"[Note: Automated synthesis failed, providing structured summary]\n\n">>
    \o <<"Key Perspectives:\n\n">>
    \o PerspectiveBlocks(ContributorOrder(resps, {}), resps)
    \o <<"\nSynthesis Error: ">> \o msg

\* `!response.error && response.content.trim()` throws a TypeError on the first
\* response without an error whose content is not a string
FallbackThrows(rounds) ==
    \E i \in 1..Len(AllResponses(rounds)) :
        /\ ~AllResponses(rounds)[i].error.some
        /\ AllResponses(rounds)[i].content = NullContent

\* synthesize with no rounds: no call is made
NoRoundsAnswer(topic) ==
    <<"No debate rounds available for topic: \"">> \o topic
        \o <<"\". Unable to provide a synthesized answer.">>

\* synthesize, given what the chat call resolved to; `rounds` is the session's
\* round array as it is when the call resolves
SynthesisOf(reply, topic, rounds) ==
    IF ~reply.ok THEN createFallbackSynthesis(topic, rounds, reply.err)
    ELSE IF reply.content = <<>>
    THEN createFallbackSynthesis(topic, rounds, <<"No response content from synthesizer">>)
    ELSE Trim(reply.content)

\* synthesize rejects: the catch block calls createFallbackSynthesis, which throws
SynthesisThrows(reply, rounds) ==
    (~reply.ok \/ reply.content = <<>>) /\ FallbackThrows(rounds)

\* what a call of synthesize ends in: the text it resolves to, or a rejection
Resolved(text) == [thrown |-> FALSE, text |-> text]
Rejected == [thrown |-> TRUE, text |-> <<>>]

\* synthesize(topic, rounds), given what the chat call resolves to
\* the chatCompletion requests synthesize sends
SynthesizerRequests(rounds, model) ==
    IF Len(rounds) = 0 THEN {} ELSE {[sid |-> 0, kind |-> "synthesizer", model |-> model]}

synthesize(reply, topic, rounds) ==
    IF Len(rounds) = 0 THEN Resolved(NoRoundsAnswer(topic))
    ELSE IF SynthesisThrows(reply, rounds) THEN Rejected
    ELSE Resolved(SynthesisOf(reply, topic, rounds))

(***************************************************************************)
(* RoundManager.executeRound, attempt by attempt                           *)
(*                                                                         *)
(* getAgentResponse runs once per configured participant; each activation  *)
(* suspends at its chatCompletion call and at the backoff timer, and       *)
(* executeRound suspends at Promise.all until all of them have resolved.   *)
(***************************************************************************)
\* throw new Error('No response choices returned from API'): a resolved call
\* without choices ends the try block like a rejected call
ErrNoChoices == <<"No response choices returned from API">>

Message(role, content) == [role |-> role, content |-> content]

\* `${response.content}` in a template literal: null prints as "null"
ContentText(content) == IF content = NullContent THEN <<"null">> ELSE content

\* { role: 'assistant', content: `[Agent ${response.model}]: ${response.content}` }
AssistantMessage(resp) ==
    Message("assistant", <<"[Agent ", resp.model, "]: ">> \o ContentText(resp.content))

SystemPrompt ==
    <<"You are participating in a multi-agent debate. Provide thoughtful responses that consider other agents' perspectives while maintaining your own reasoning.">>

\* variant of the context below that leaves errored responses out (sensitivity of C20)
buildContextMessages_SkipErrors(topic, previousRounds) ==
    LET resps == SelectSeq(AllResponses(previousRounds), LAMBDA x : ~x.error.some) IN
    <<Message("system", SystemPrompt),
      Message("user", <<"Topic for debate: ">> \o topic)>>
    \o [i \in 1..Len(resps) |-> AssistantMessage(resps[i])]
    \o (IF Len(previousRounds) > 0
        THEN <<Message("user",
                       <<"Please provide your response considering the above perspectives.">>)>>
        ELSE <<>>)

buildContextMessages(topic, previousRounds) ==
    LET resps == AllResponses(previousRounds) IN
    <<Message("system", SystemPrompt),
      Message("user", <<"Topic for debate: ">> \o topic)>>
    \o [i \in 1..Len(resps) |-> AssistantMessage(resps[i])]
    \o (IF Len(previousRounds) > 0
        THEN <<Message("user",
                       <<"Please provide your response considering the above perspectives.">>)>>
        ELSE <<>>)

\* the error response returned after the retry loop
FailedResponse(model, lastError) ==
    AgentResponse(model, <<>>, Some(<<"Failed after ", "3", " attempts: ">> \o lastError))

\* one activation of getAgentResponse: where it is, the attempt it is in, what
\* its attempts resolved to so far, and the response it returned
NewParticipant == [state |-> "calling", attempt |-> 1, outcomes |-> <<>>, response |-> None]

IdleRound ==
    [phase |-> "idle", topic |-> <<>>, models |-> <<>>, rounds |-> <<>>,
     startRounds |-> <<>>, roundNumber |-> 0, contextMessages |-> <<>>,
     parts |-> <<>>, issued |-> {}, doneOrder |-> <<>>, result |-> None]

\* a chatCompletion request of a participant
Call(who, attempt, model, messages) ==
    [who |-> who, attempt |-> attempt, model |-> model, messages |-> messages]

\* variant that rebuilds the context from the session at every attempt (sensitivity of C19)
ContextForAttempt_Rebuilt(messages, topic, rounds) == buildContextMessages(topic, rounds)

\* the `messages` parameter of getAgentResponse, passed to every attempt
ContextForAttempt(messages, topic, rounds) == messages

\* variant that sends the first participant's query only (sensitivity of C18)
FirstCalls_OnlyFirst(models, messages) == {Call(1, 1, models[1], messages)}

\* session.config.models.map(model => this.getAgentResponse(model, contextMessages)):
\* every activation runs up to its first chatCompletion call
FirstCalls(models, messages) ==
    {Call(i, 1, models[i], messages) : i \in 1..Len(models)}

\* variant of the test below that never short-circuits (sensitivity of C15)
ShortCircuits_Never(msg) == FALSE

\* if (error instanceof Error && error.message.includes('401')) break;
ShortCircuits(msg) == Is401(msg)

\* the body of the retry loop once the attempt's call has resolved to `outcome`
AfterAttempt(part, model, outcome) ==
    LET seen == Append(part.outcomes, outcome) IN
    IF outcome.ok
    THEN [part EXCEPT !.state = "done", !.outcomes = seen,
                      !.response = Some(AgentResponse(model, outcome.content, None))]
    ELSE IF ShortCircuits(outcome.err) \/ part.attempt >= maxRetries
    THEN [part EXCEPT !.state = "done", !.outcomes = seen,
                      !.response = Some(FailedResponse(model, outcome.err))]
    ELSE [part EXCEPT !.state = "backoff", !.outcomes = seen]

\* Promise.all(responsePromises) resolves
RoundReady(parts) == \A i \in 1..Len(parts) : parts[i].state = "done"

\* variant that drops the failed participants (sensitivity of C16)
CollectResponses_DropFailed(parts, doneOrder) ==
    SelectSeq([i \in 1..Len(parts) |-> parts[i].response.val], LAMBDA x : ~x.error.some)

\* variant that takes the responses in completion order (sensitivity of C17)
CollectResponses_CompletionOrder(parts, doneOrder) ==
    [k \in 1..Len(doneOrder) |-> parts[doneOrder[k]].response.val]

\* the value of Promise.all, in the order of the promises, filtered for null
CollectResponses(parts, doneOrder) == [i \in 1..Len(parts) |-> parts[i].response.val]

\* executeRound(session) up to Promise.all: the round number and the context
\* are fixed and every participant's first attempt is sent
RmStart(Sessions) ==
    /\ rm.phase = "idle"
    /\ \E sess \in Sessions :
           LET messages == buildContextMessages(sess.topic, sess.rounds) IN
           rm' = [IdleRound EXCEPT
                     !.phase = "running", !.topic = sess.topic, !.models = sess.models,
                     !.rounds = sess.rounds, !.startRounds = sess.rounds,
                     !.roundNumber = RoundNumberFor(sess.rounds),
                     !.contextMessages = messages,
                     !.parts = [i \in 1..Len(sess.models) |-> NewParticipant],
                     !.issued = FirstCalls(sess.models,
                                           ContextForAttempt(messages, sess.topic,
                                                             sess.rounds))]
    /\ UNCHANGED <<sessions, orch, runs, step, calls, mInput, mResult, clients>>

\* the chatCompletion call of participant i's current attempt resolves
RmAttemptResolves(Outcomes) ==
    /\ rm.phase = "running"
    /\ \E i \in 1..Len(rm.parts), outcome \in Outcomes :
           /\ rm.parts[i].state = "calling"
           /\ LET part == AfterAttempt(rm.parts[i], rm.models[i], outcome) IN
              rm' = [rm EXCEPT !.parts[i] = part,
                               !.doneOrder = IF part.state = "done" THEN Append(@, i) ELSE @]
    /\ UNCHANGED <<sessions, orch, runs, step, calls, mInput, mResult, clients>>

\* the backoff timer of participant i fires: the next attempt is sent
RmBackoffElapses ==
    /\ rm.phase = "running"
    /\ \E i \in 1..Len(rm.parts) :
           /\ rm.parts[i].state = "backoff"
           /\ rm' = [rm EXCEPT
                        !.parts[i].state = "calling",
                        !.parts[i].attempt = @ + 1,
                        !.issued = @ \cup {Call(i, rm.parts[i].attempt + 1, rm.models[i],
                                                ContextForAttempt(rm.contextMessages,
                                                                  rm.topic, rm.rounds))}]
    /\ UNCHANGED <<sessions, orch, runs, step, calls, mInput, mResult, clients>>

\* Promise.all has resolved: executeRound returns the round
RmReturn ==
    /\ rm.phase = "running"
    /\ RoundReady(rm.parts)
    /\ rm' = [rm EXCEPT
                 !.phase = "returned",
                 !.result = Some(DebateRound(rm.roundNumber,
                                             CollectResponses(rm.parts, rm.doneOrder)))]
    /\ UNCHANGED <<sessions, orch, runs, step, calls, mInput, mResult, clients>>

\* another run of the same session pushes a round while this one is executing
RmSessionGrows(Rounds) ==
    /\ rm.phase = "running"
    /\ rm.rounds = rm.startRounds
    /\ \E round \in Rounds : rm' = [rm EXCEPT !.rounds = Append(@, round)]
    /\ UNCHANGED <<sessions, orch, runs, step, calls, mInput, mResult, clients>>

(***************************************************************************)
(* DebateOrchestrator                                                      *)
(*                                                                         *)
(* A run is one activation of runDebate (entered directly or through       *)
(* continueDebate).  It suspends at its three awaits: the round, the       *)
(* evaluator call and the synthesizer call; each action below is the code  *)
(* executed from one suspension point to the next.                         *)
(***************************************************************************)
\* new DebateOrchestrator(client): both default to 'deepseek'
NewOrchestrator == [moderator |-> "deepseek", synthesizer |-> "deepseek"]

IdleRun ==
    [pc |-> "unused", sid |-> 0, oid |-> 0, op |-> "none", startStatus |-> "none",
     convergenceAchieved |-> FALSE, finalConvergenceAssessment |-> None,
     roundNumber |-> 0, roundIdx |-> 0, evalModel |-> "none",
     synthCalled |-> FALSE, synthModel |-> "none", topicArg |-> <<>>,
     startLen |-> 0, evals |-> 0, passed |-> {}, notified |-> <<>>,
     agentNotified |-> <<>>, result |-> None]

IdleStep == [sid |-> 0, run |-> 0, op |-> "none", from |-> "none", statuses |-> <<>>,
             issued |-> 0]

Active(run) == run.pc \in {"awaitRound", "awaitEval", "awaitSynth"}

\* session.config.maxRounds += 3
ContinueIncrement == 3

\* while (session.rounds.length < session.config.maxRounds && !convergenceAchieved)
LoopContinues(sess, convergenceAchieved) ==
    NumLess(Whole(Len(sess.rounds)), sess.config.maxRounds) /\ ~convergenceAchieved

\* variant of the test below that never takes the break (sensitivity of C2)
StopsOnConvergence_Never(assessment) == FALSE

\* if (convergenceAssessment.isConverged) { ...; break; }
StopsOnConvergence(assessment) == assessment.isConverged

\* if (!convergenceAchieved && session.rounds.length >= session.config.maxRounds)
HitMaxRounds(sess, convergenceAchieved) ==
    ~convergenceAchieved /\ NumGeq(Whole(Len(sess.rounds)), sess.config.maxRounds)

\* From the end of the loop to the await of synthesize.  `o` is the
\* orchestrator as it is now: this.synthesizer is read when the call is made.
LeaveLoop(sess, run, o, statuses) ==
    LET hit == HitMaxRounds(sess, run.convergenceAchieved)
        called == Len(sess.rounds) # 0
    IN  [sess |-> IF hit THEN [sess EXCEPT !.status = "max_rounds_reached"] ELSE sess,
         run |-> [run EXCEPT !.pc = "awaitSynth", !.synthCalled = called,
                             !.synthModel = IF called THEN o.synthesizer ELSE "none",
                             !.topicArg = sess.config.topic],
         statuses |-> IF hit THEN Append(statuses, "max_rounds_reached") ELSE statuses,
         issued |-> 0]

\* From the loop test to the next await: either executeRound is entered (the
\* round number is fixed and the first attempt of every participant is sent),
\* or the loop is left.
EnterLoop(sess, run, o, statuses) ==
    IF LoopContinues(sess, run.convergenceAchieved)
    THEN [sess |-> sess,
          run |-> [run EXCEPT !.pc = "awaitRound",
                              !.roundNumber = RoundNumberFor(sess.rounds)],
          statuses |-> statuses,
          issued |-> Len(sess.config.models)]
    ELSE LeaveLoop(sess, run, o, statuses)

SynthCalls(run) ==
    IF run.pc = "awaitSynth" /\ run.synthCalled
    THEN {[sid |-> run.sid, kind |-> "synthesizer", model |-> run.synthModel]}
    ELSE {}

\* the common end of every orchestrator step
Commit(s, r, opname, from, out, newCalls) ==
    /\ sessions' = [sessions EXCEPT ![s] = out.sess]
    /\ runs' = [runs EXCEPT ![r] = [out.run EXCEPT
                                       !.passed = @ \cup {out.statuses[i] :
                                                            i \in 1..Len(out.statuses)}]]
    /\ step' = [sid |-> s, run |-> r, op |-> opname, from |-> from,
                statuses |-> out.statuses, issued |-> out.issued]
    /\ calls' = calls \cup newCalls \cup SynthCalls(out.run)

\* runDebate(session), up to its first await
BeginRunDebate(sess, run, statuses) ==
    LET o == [moderator |-> sess.config.moderatorModel,
              synthesizer |-> sess.config.synthesizerModel]
        sess1 == [sess EXCEPT !.status = "in_progress"]
        run1 == [run EXCEPT !.convergenceAchieved = FALSE,
                            !.finalConvergenceAssessment = None]
    IN  [o |-> o, out |-> EnterLoop(sess1, run1, o, Append(statuses, "in_progress"))]

\* A call of runDebate on the session value `sess`, which orchestrator `oid`
\* runs in frame r up to the first await.
StartRunDebate(r, s, oid, sess) ==
    /\ ~Active(runs[r])
    /\ LET b == BeginRunDebate(sess,
                               [IdleRun EXCEPT !.sid = s, !.oid = oid, !.op = "runDebate",
                                               !.startStatus = sess.status,
                                               !.startLen = Len(sess.rounds)],
                               <<>>)
       IN  /\ orch' = [orch EXCEPT ![oid] = b.o]
           /\ Commit(s, r, "runDebate", sess.status, b.out, {})

\* A call of continueDebate on the session value `sess`
StartContinueDebate(r, s, oid, sess) ==
    /\ ~Active(runs[r])
    /\ LET sess1 == [sess EXCEPT
                        !.status = "in_progress",
                        !.finalAnswer = None,
                        !.config.maxRounds = NumAddWhole(@, ContinueIncrement)]
           b == BeginRunDebate(sess1,
                               [IdleRun EXCEPT !.sid = s, !.oid = oid,
                                               !.op = "continueDebate",
                                               !.startStatus = sess.status,
                                               !.startLen = Len(sess.rounds)],
                               <<"in_progress">>)
       IN  /\ orch' = [orch EXCEPT ![oid] = b.o]
           /\ Commit(s, r, "continueDebate", sess.status, b.out, {})

\* orchestrator.runDebate(session) is called
RunDebate(r, s, oid) ==
    /\ sessions[s].exists
    /\ StartRunDebate(r, s, oid, sessions[s])
    /\ UNCHANGED <<mInput, mResult, rm, clients>>

\* orchestrator.continueDebate(session, instructions) is called
ContinueDebate(r, s, oid) ==
    /\ sessions[s].exists
    /\ StartContinueDebate(r, s, oid, sessions[s])
    /\ UNCHANGED <<mInput, mResult, rm, clients>>

\* The responses handed to onAgentResponse in one round.  The orchestrator
\* passes the callback on as a second argument of roundManager.executeRound,
\* whose only parameter is the session: no statement of it calls the callback.
AgentCallbackCalls(round) == <<>>

\* variant of the notification below that is never made (sensitivity of C28)
NotifyRound_Never(notified, round) == notified

\* if (onRoundComplete) { onRoundComplete(round); } with a callback that
\* records the number of the round it is given
NotifyRound(notified, round) == Append(notified, round.roundNumber)

\* `await this.executeRound(session)` resolves: the round is pushed, the
\* progress callback is called and the
\* evaluator is called through this.moderator as it is now.  A profile gives
\* every participant its schedule.
RoundStep(r, Profiles) ==
    /\ runs[r].pc = "awaitRound"
    /\ LET s == runs[r].sid
           sess == sessions[s]
           n == Len(sess.config.models)
       IN  \E scheds \in {p \in Profiles : Len(p) = n} :
               LET round == executeRound(runs[r].roundNumber, sess.config.models, scheds)
                   sess1 == [sess EXCEPT !.rounds = Append(@, round)]
                   model == orch[runs[r].oid].moderator
               IN  Commit(s, r, "round", sess.status,
                          [sess |-> sess1,
                           run |-> [runs[r] EXCEPT !.pc = "awaitEval",
                                                   !.roundIdx = Len(sess1.rounds),
                                                   !.evalModel = model,
                                                   !.evals = @ + 1,
                                                   !.notified = NotifyRound(@, round),
                                                   !.agentNotified =
                                                       @ \o AgentCallbackCalls(round)],
                           statuses |-> <<>>,
                           issued |-> RetryCalls(scheds)],
                          {[sid |-> s, kind |-> "moderator", model |-> model]})

\* the same when no caller-supplied callback touches other state
RoundResolves(r, Profiles) ==
    /\ RoundStep(r, Profiles)
    /\ UNCHANGED <<orch, mInput, mResult, rm, clients>>

\* variant of the assignment below that leaves the round as it is (sensitivity of C25)
AttachAssessment_Dropped(rounds, idx, a) == rounds

\* round.convergenceCheck = convergenceAssessment, `round` being the element
\* of session.rounds pushed by this iteration
AttachAssessment(rounds, idx, a) == [rounds EXCEPT ![idx].convergenceCheck = Some(a)]

\* `await this.moderator.evaluateConvergence(...)` resolves
EvaluationResolves(r, Replies) ==
    /\ runs[r].pc = "awaitEval"
    /\ LET s == runs[r].sid
           sess == sessions[s]
       IN  \E reply \in Replies :
               LET a == evaluateConvergence(reply, sess.rounds,
                                            sess.config.convergenceThreshold)
                   sess1 == [sess EXCEPT
                                !.rounds = AttachAssessment(@, runs[r].roundIdx, a)]
                   run1 == [runs[r] EXCEPT !.finalConvergenceAssessment = Some(a)]
               IN  IF StopsOnConvergence(a)
                   THEN Commit(s, r, "evaluation", sess.status,
                               LeaveLoop([sess1 EXCEPT !.status = "converged"],
                                         [run1 EXCEPT !.convergenceAchieved = TRUE],
                                         orch[runs[r].oid], <<"converged">>),
                               {})
                   ELSE Commit(s, r, "evaluation", sess.status,
                               EnterLoop(sess1, run1, orch[runs[r].oid], <<>>), {})
    /\ UNCHANGED <<orch, mInput, mResult, rm, clients>>

\* `await this.synthesizer.synthesize(...)` resolves and the session is completed
\* and runDebate returns its result, or it rejects and so does runDebate
SynthesisStep(r, Replies) ==
    /\ runs[r].pc = "awaitSynth"
    /\ LET s == runs[r].sid
           sess == sessions[s]
       IN  \E reply \in (IF runs[r].synthCalled THEN Replies ELSE {ChatOk(<<>>)}) :
               IF runs[r].synthCalled /\ SynthesisThrows(reply, sess.rounds)
               THEN Commit(s, r, "synthesis", sess.status,
                           [sess |-> sess,
                            run |-> [runs[r] EXCEPT !.pc = "rejected"],
                            statuses |-> <<>>,
                            issued |-> 0],
                           {})
               ELSE
               LET finalAnswer == IF runs[r].synthCalled
                                  THEN SynthesisOf(reply, runs[r].topicArg, sess.rounds)
                                  ELSE NoRoundsAnswer(runs[r].topicArg)
                   sess1 == [sess EXCEPT
                                !.finalAnswer = Some(finalAnswer),
                                !.convergenceAssessment = runs[r].finalConvergenceAssessment,
                                !.status = "completed"]
               IN  Commit(s, r, "synthesis", sess.status,
                          [sess |-> sess1,
                           run |-> [runs[r] EXCEPT
                                       !.pc = "returned",
                                       !.result = Some([finalAnswer |-> finalAnswer,
                                                        totalRounds |-> Len(sess1.rounds),
                                                        convergenceAchieved |->
                                                            runs[r].convergenceAchieved])],
                           statuses |-> <<"completed">>,
                           issued |-> 0],
                          {})

\* the same when the caller does nothing else in the step
SynthesisResolves(r, Replies) ==
    /\ SynthesisStep(r, Replies)
    /\ UNCHANGED <<orch, mInput, mResult, rm, clients>>

\* orchestrator.createSession(config): throws unless the configuration validates
CreateSession(s, Configs) ==
    /\ ~sessions[s].exists
    /\ \E config \in Configs :
           /\ IsValid(config)
           /\ sessions' = [sessions EXCEPT ![s] = NewSession(config)]
    /\ step' = [IdleStep EXCEPT !.sid = s, !.op = "createSession"]
    /\ UNCHANGED <<orch, runs, calls, mInput, mResult, rm, clients>>

(***************************************************************************)
(* Bounds and input sets                                                   *)
(***************************************************************************)
MaxTotalRounds == 4     \* a continuation is taken while maxRounds stays within it
MaxReplyLen == 2        \* segments of a moderator reply

SessionIds == {1, 2}
OrchIds == {1, 2}
\* activation frames: a frame is free again once its run has returned
RunIds == {1, 2}

Seqs(S, n) == UNION {[1..k -> S] : k \in 0..n}

Topic == <<"t">>

\* what callers hand to createSession: valid and invalid configurations
CandidateConfigs ==
    {DebateConfig(topic, models, maxRounds, threshold, "gemini-2.5-pro", "gpt-5") :
        topic \in {Topic, <<" ">>},
        models \in {<<"deepseek", "gpt-5">>, <<"deepseek">>},
        maxRounds \in {Whole(0), Whole(1), Num(15), Whole(2), NaN},
        threshold \in {Num(5), Num(12)}}

AgentText == <<"a">>

Repeat(x, n) == [i \in 1..n |-> x]

Answers == <<ChatOk(AgentText)>>
\* the call resolves with message.content = null
AnswersNull == <<ChatOk(NullContent)>>
FailsEveryAttempt == Repeat(ChatErr(ErrNetwork), maxRetries)

\* rounds of two participants: both answer at once, or both fail every attempt
SeqProfiles == {<<Answers, Answers>>, <<FailsEveryAttempt, FailsEveryAttempt>>}

ReplyObj(flag, score) == ChatOk(<<Obj(JBool(flag), JNum(score), JStr)>>)

SeqEvalReplies ==
    {ChatErr(ErrNetwork), ReplyObj(TRUE, Num(9)), ReplyObj(TRUE, Num(3)),
     ReplyObj(FALSE, Num(3))}

SeqSynthReplies == {ChatErr(ErrNetwork), ChatOk(<<" ", "a", " ">>), ChatOk(<<" ">>)}

(***************************************************************************)
(* Spec: one session driven through one orchestrator, every call awaited   *)
(* before the next one is made                                             *)
(***************************************************************************)
NoRunActive == \A r \in RunIds : ~Active(runs[r])

WithinRoundBound(sess) ==
    \/ IsNaN(sess.config.maxRounds)
    \/ NumLeq(NumAddWhole(sess.config.maxRounds, ContinueIncrement), Whole(MaxTotalRounds))

Init ==
    /\ sessions = [s \in SessionIds |-> NoSession]
    /\ orch = [o \in OrchIds |-> NewOrchestrator]
    /\ runs = [r \in RunIds |-> IdleRun]
    /\ step = IdleStep
    /\ calls = {}
    /\ mInput = None
    /\ mResult = None
    /\ rm = IdleRound
    /\ clients = NoClients

SeqCreate == CreateSession(1, CandidateConfigs)

SeqRun == NoRunActive /\ RunDebate(1, 1, 1)

SeqContinue ==
    /\ NoRunActive
    /\ sessions[1].exists
    /\ WithinRoundBound(sessions[1])
    /\ ContinueDebate(1, 1, 1)

SeqRound == \E r \in RunIds : RoundResolves(r, SeqProfiles)

SeqEvaluation == \E r \in RunIds : EvaluationResolves(r, SeqEvalReplies)

SeqSynthesis == \E r \in RunIds : SynthesisResolves(r, SeqSynthReplies)

Next == SeqCreate \/ SeqRun \/ SeqContinue \/ SeqRound \/ SeqEvaluation \/ SeqSynthesis

Spec == Init /\ [][Next]_vars

(***************************************************************************)
(* SpecEval: evaluateConvergence applied to every reply of a bounded set   *)
(***************************************************************************)
ScoreValues == {Num(-5), Num(3), Num(10), Num(15), PosInf, NegInf}

\* JSON.parse yields finite numbers and, on overflow (1e999), the infinities;
\* JSON has no NaN literal
ReplyObjects ==
    {Obj(JBool(b), JNum(n), JStr) : b \in BOOLEAN, n \in ScoreValues}
    \cup {Obj(JMissing, JNum(Num(3)), JStr), Obj(JBool(TRUE), JStr, JStr),
          Obj(JBool(TRUE), JMissing, JStr), Obj(JBool(TRUE), JNum(Num(10)), JMissing)}

ReplySegments == ReplyObjects \cup {Prose, LBrace, RBrace}

EvalReplies == {ChatErr(ErrNetwork)} \cup {ChatOk(c) : c \in Seqs(ReplySegments, MaxReplyLen)}

Thresholds == {Whole(0), Num(5), Whole(1), NaN}

SomeRounds ==
    <<DebateRound(1, <<AgentResponse("deepseek", AgentText, None),
                       AgentResponse("gpt-5", AgentText, None)>>)>>

InitEval ==
    /\ sessions = [s \in SessionIds |-> NoSession]
    /\ orch = [o \in OrchIds |-> NewOrchestrator]
    /\ runs = [r \in RunIds |-> IdleRun]
    /\ step = IdleStep
    /\ calls = {}
    /\ mInput \in {Some([reply |-> reply, rounds |-> rounds, threshold |-> threshold]) :
                      reply \in EvalReplies, rounds \in {<<>>, SomeRounds},
                      threshold \in Thresholds}
    /\ mResult = None
    /\ rm = IdleRound
    /\ clients = NoClients

Evaluate ==
    /\ mResult = None
    /\ mResult' = Some(evaluateConvergence(mInput.val.reply, mInput.val.rounds,
                                           mInput.val.threshold))
    /\ calls' = calls \cup ModeratorRequests(mInput.val.rounds, "gemini-2.5-pro")
    /\ UNCHANGED <<sessions, orch, runs, step, mInput, rm, clients>>

NextEval == Evaluate

SpecEval == InitEval /\ [][NextEval]_vars

(***************************************************************************)
(* SpecShared: two sessions run concurrently through one orchestrator      *)
(***************************************************************************)
SharedConfigs(s) ==
    {DebateConfig(Topic, <<"deepseek", "gpt-5">>, maxRounds, Num(5),
                  IF s = 1 THEN "gemini-2.5-pro" ELSE "grok-4-fast",
                  IF s = 1 THEN "gpt-5" ELSE "supermind-agent-v1") :
        maxRounds \in {Whole(1), Whole(2)}}

SharedProfiles == {<<Answers, Answers>>}

SharedEvalReplies == {ReplyObj(TRUE, Num(9)), ReplyObj(FALSE, Num(3))}

SharedSynthReplies == {ChatOk(<<"a">>), ChatErr(ErrNetwork)}

SharedCreate == \E s \in SessionIds : CreateSession(s, SharedConfigs(s))

\* session s is run once, in frame s, by orchestrator 1
SharedRun ==
    \E s \in SessionIds :
        /\ sessions[s].exists
        /\ sessions[s].status = "pending"
        /\ RunDebate(s, s, 1)

SharedRound == \E r \in RunIds : RoundResolves(r, SharedProfiles)

SharedEvaluation == \E r \in RunIds : EvaluationResolves(r, SharedEvalReplies)

SharedSynthesis == \E r \in RunIds : SynthesisResolves(r, SharedSynthReplies)

NextShared ==
    SharedCreate \/ SharedRun \/ SharedRound \/ SharedEvaluation \/ SharedSynthesis

SpecShared == Init /\ [][NextShared]_vars

(***************************************************************************)
(* SpecRound: one executeRound, every interleaving of its participants     *)
(***************************************************************************)
PriorRound1 ==
    DebateRound(1, <<AgentResponse("deepseek", AgentText, None),
                     FailedResponse("gpt-5", ErrNetwork)>>)

PriorRound2 ==
    DebateRound(2, <<AgentResponse("deepseek", <<"b">>, None),
                     AgentResponse("gpt-5", NullContent, None)>>)

RoundSessions ==
    {[topic |-> Topic, models |-> models, rounds |-> rounds] :
        models \in {<<"deepseek", "gpt-5">>, <<"gpt-5", "gpt-5">>},
        rounds \in {<<>>, <<PriorRound1>>, <<PriorRound1, PriorRound2>>}}

AttemptOutcomes ==
    {ChatOk(AgentText), ChatErr(ErrNetwork), ChatErr(ErrAuth), ChatErr(ErrServerBody401),
     ChatErr(ErrNoChoices)}

ConcurrentRounds == {DebateRound(9, <<AgentResponse("deepseek", <<"c">>, None)>>)}

RoundStart == RmStart(RoundSessions)

RoundAttempt == RmAttemptResolves(AttemptOutcomes)

RoundBackoff == RmBackoffElapses

RoundReturn == RmReturn

RoundGrows == RmSessionGrows(ConcurrentRounds)

NextRound == RoundStart \/ RoundAttempt \/ RoundBackoff \/ RoundReturn \/ RoundGrows

SpecRound == Init /\ [][NextRound]_vars

(***************************************************************************)
(* SpecOutcomes: one run of a fresh session under every outcome of its     *)
(* chat-client calls                                                       *)
(***************************************************************************)
OutcomeConfigs ==
    {DebateConfig(Topic, <<"deepseek", "gpt-5">>, maxRounds, Num(5), "gemini-2.5-pro", "gpt-5") :
        maxRounds \in {Whole(1), Whole(2)}}

\* per round: both answer, both fail every attempt, the first is unauthorized,
\* the first answers after one failure, or the first answers without text
OutcomeProfiles ==
    {<<Answers, Answers>>, <<FailsEveryAttempt, FailsEveryAttempt>>,
     <<<<ChatErr(ErrAuth)>>, Answers>>, <<<<ChatErr(ErrNetwork), ChatOk(AgentText)>>, Answers>>,
     <<AnswersNull, Answers>>}

OutcomeEvalReplies == {ChatErr(ErrNetwork), ReplyObj(TRUE, Num(9)), ReplyObj(FALSE, Num(3))}

OutcomeSynthReplies == {ChatErr(ErrNetwork), ChatOk(<<"a">>), ChatOk(<<>>)}

OutCreate == CreateSession(1, OutcomeConfigs)

OutRun ==
    /\ sessions[1].exists
    /\ sessions[1].status = "pending"
    /\ RunDebate(1, 1, 1)

OutRound == \E r \in RunIds : RoundResolves(r, OutcomeProfiles)

OutEvaluation == \E r \in RunIds : EvaluationResolves(r, OutcomeEvalReplies)

OutSynthesis == \E r \in RunIds : SynthesisResolves(r, OutcomeSynthReplies)

NextOutcomes == OutCreate \/ OutRun \/ OutRound \/ OutEvaluation \/ OutSynthesis

SpecOutcomes == Init /\ [][NextOutcomes]_vars

\* every chatCompletion call eventually resolves or rejects: a run that awaits
\* a round, the evaluator or the synthesizer is eventually resumed
FairOutcomes ==
    /\ SpecOutcomes
    /\ WF_vars(OutRound)
    /\ WF_vars(OutEvaluation)
    /\ WF_vars(OutSynthesis)

(***************************************************************************)
(* SpecServer: the HTTP server; every request handler runs to its response *)
(* and leaves the run it started suspended in the background               *)
(***************************************************************************)
\* createDefaultConfig(topic, models)
createDefaultConfig(topic, models) ==
    DebateConfig(topic,
                 IF models.some THEN models.val ELSE <<"deepseek", "supermind-agent-v1">>,
                 Whole(5), Num(8), "deepseek", "deepseek")

\* `if (x)` on an optional number: undefined, 0 and NaN are falsy
TruthyNumber(x) == x.some /\ ~IsNaN(x.val) /\ x.val # Whole(0)

\* the configuration POST /api/debate builds from the request body
ConfigFromBody(body) ==
    LET d == createDefaultConfig(body.topic, body.models) IN
    [d EXCEPT
        !.maxRounds = IF TruthyNumber(body.maxRounds) THEN body.maxRounds.val ELSE @,
        !.convergenceThreshold =
            IF TruthyNumber(body.convergenceThreshold)
            THEN body.convergenceThreshold.val ELSE @,
        !.moderatorModel = IF body.moderatorModel.some THEN body.moderatorModel.val ELSE @,
        !.synthesizerModel =
            IF body.synthesizerModel.some THEN body.synthesizerModel.val ELSE @]

\* POST /api/debate: the session is created, registered with an orchestrator
\* of its own, and runDebateInBackground runs up to the first await
PostDebate(r, s, Bodies) ==
    /\ ~sessions[s].exists
    /\ \E body \in Bodies :
           /\ IsValid(ConfigFromBody(body))
           /\ StartRunDebate(r, s, s, NewSession(ConfigFromBody(body)))
    /\ UNCHANGED <<mInput, mResult, rm, clients>>

\* variant of the append below that replaces the topic (sensitivity of C22)
WithIntervention_Replace(sess, instructions) ==
    [sess EXCEPT !.config.topic = <<"[User Intervention]: ">> \o instructions]

\* session.config.topic += `\n\n[User Intervention]: ${instructions}`
WithIntervention(sess, instructions) ==
    [sess EXCEPT !.config.topic = @ \o <<"\n\n[User Intervention]: ">> \o instructions]

\* POST /api/debate/:id/continue: runDebateInBackground(id, true, instructions)
\* is started whatever the session is doing
PostContinue(r, s, instructions) ==
    /\ sessions[s].exists
    /\ IF instructions.some
       THEN StartContinueDebate(r, s, s, WithIntervention(sessions[s], instructions.val))
       ELSE StartRunDebate(r, s, s, sessions[s])
    /\ UNCHANGED <<mInput, mResult, rm, clients>>

ServerBodies ==
    {[topic |-> Topic, models |-> models, maxRounds |-> Some(Whole(1)),
      convergenceThreshold |-> Some(Num(5)), moderatorModel |-> Some("gpt-5"),
      synthesizerModel |-> None] :
        models \in {None, Some(<<"deepseek">>)}}

Instructions == {None, Some(<<"i">>)}

\* the free frame a new background run takes
FreeFrame(r) == ~Active(runs[r]) /\ \A q \in RunIds : q < r => Active(runs[q])

SrvPostDebate == \E r \in RunIds : FreeFrame(r) /\ PostDebate(r, 1, ServerBodies)

SrvPostContinue ==
    \E r \in RunIds, instructions \in Instructions :
        /\ FreeFrame(r)
        /\ sessions[1].exists
        /\ instructions.some => WithinRoundBound(sessions[1])
        /\ PostContinue(r, 1, instructions)

SrvRound == \E r \in RunIds : RoundResolves(r, SharedProfiles)

ServerEvalReplies == {ReplyObj(TRUE, Num(9))}

ServerSynthReplies == {ChatOk(<<"a">>)}

SrvEvaluation == \E r \in RunIds : EvaluationResolves(r, ServerEvalReplies)

SrvSynthesis == \E r \in RunIds : SynthesisResolves(r, ServerSynthReplies)

NextServer == SrvPostDebate \/ SrvPostContinue \/ SrvRound \/ SrvEvaluation \/ SrvSynthesis

SpecServer == Init /\ [][NextServer]_vars

(***************************************************************************)
(* The server's event streams: clients subscribe to session 1 at any time  *)
(* and stay connected; the background run broadcasts to the clients the    *)
(* session has at that moment                                              *)
(***************************************************************************)
\* broadcast(sessionId, data): written to every client in the session's list
broadcast(cl, s, type) ==
    [c \in ClientIds |->
        IF cl[c].subscribed /\ cl[c].sid = s
        THEN [cl[c] EXCEPT !.events = @ \cup {type}]
        ELSE cl[c]]

\* GET /api/debate/:id/stream: the client is added to the list and is sent
\* the 'init' event with the session as it is
GetStream(c, s) ==
    /\ ~clients[c].subscribed
    /\ sessions[s].exists
    /\ clients' = [clients EXCEPT ![c] = [subscribed |-> TRUE, sid |-> s,
                                          events |-> {"init"}]]
    /\ UNCHANGED <<sessions, orch, runs, step, calls, mInput, mResult, rm>>

\* a round of a background run completes: onRoundComplete broadcasts 'round'
BackgroundRound(r, Profiles) ==
    /\ RoundStep(r, Profiles)
    /\ clients' = broadcast(clients, runs[r].sid, "round")
    /\ UNCHANGED <<orch, mInput, mResult, rm>>

\* the orchestrator call of runDebateInBackground settles: 'complete' is
\* broadcast if it returned, 'error' from the catch block if it rejected
BackgroundSettles(r, Replies) ==
    /\ SynthesisStep(r, Replies)
    /\ clients' = broadcast(clients, runs[r].sid,
                            IF runs'[r].pc = "returned" THEN "complete" ELSE "error")
    /\ UNCHANGED <<orch, mInput, mResult, rm>>

\* the first participant answers without text: the run then returns or
\* rejects, as the synthesizer call goes
StreamProfiles == {<<AnswersNull, Answers>>}

StreamSynthReplies == {ChatOk(<<"a">>), ChatErr(ErrNetwork)}

StrPostDebate == SrvPostDebate

\* continue requests are sent once the previous run has ended
StrPostContinue == NoRunActive /\ SrvPostContinue

StrGetStream == \E c \in ClientIds : GetStream(c, 1)

StrRound == \E r \in RunIds : BackgroundRound(r, StreamProfiles)

StrEvaluation == SrvEvaluation

StrSettles == \E r \in RunIds : BackgroundSettles(r, StreamSynthReplies)

NextStream ==
    StrPostDebate \/ StrPostContinue \/ StrGetStream \/ StrRound \/ StrEvaluation
        \/ StrSettles

SpecStream == Init /\ [][NextStream]_vars

\* every chatCompletion call eventually resolves or rejects, so a background
\* run that awaits one is eventually resumed; requests are up to the users
FairStream ==
    /\ SpecStream
    /\ WF_vars(StrRound)
    /\ WF_vars(StrEvaluation)
    /\ WF_vars(StrSettles)

(***************************************************************************)
(* SpecCreate: sessions created from the same set of configurations and    *)
(* run through one orchestrator                                            *)
(***************************************************************************)
CreateAny == \E s \in SessionIds : CreateSession(s, CandidateConfigs)

NextCreate == CreateAny \/ SharedRun \/ SharedRound \/ SharedEvaluation \/ SharedSynthesis

SpecCreate == Init /\ [][NextCreate]_vars

(***************************************************************************)
(* SpecRequest: one POST /api/debate request with every body of a bounded  *)
(* set, answered with 200 or 500, and the background run it starts         *)
(***************************************************************************)
\* res.json({ sessionId }) or res.status(500).json({ error })
Accepted == "200"
Refused == "500"

\* The handler of POST /api/debate for the body in mInput: the configuration
\* is built, createSession validates it, the session is registered and
\* runDebateInBackground runs up to its first await; a throw of createSession
\* is caught and answered with status 500.
HandlePostDebate(r, s) ==
    /\ mInput.some
    /\ mResult = None
    /\ LET config == ConfigFromBody(mInput.val) IN
       IF IsValid(config)
       THEN /\ StartRunDebate(r, s, s, NewSession(config))
            /\ mResult' = Some(Accepted)
       ELSE /\ mResult' = Some(Refused)
            /\ UNCHANGED <<sessions, orch, runs, step, calls, clients>>
    /\ UNCHANGED <<mInput, rm, clients>>

RequestBodies ==
    {[topic |-> topic, models |-> models, maxRounds |-> maxRounds,
      convergenceThreshold |-> threshold, moderatorModel |-> Some("gpt-5"),
      synthesizerModel |-> None] :
        topic \in {Topic, <<" ">>},
        models \in {None, Some(<<"deepseek">>), Some(<<"deepseek", "gpt-5">>),
                    Some(<<"deepseek", "no-such-model">>)},
        maxRounds \in {None, Some(Whole(0)), Some(Whole(1)), Some(Whole(-1))},
        threshold \in {None, Some(Whole(0)), Some(Num(5)), Some(Num(12))}}

InitRequest ==
    /\ sessions = [s \in SessionIds |-> NoSession]
    /\ orch = [o \in OrchIds |-> NewOrchestrator]
    /\ runs = [r \in RunIds |-> IdleRun]
    /\ step = IdleStep
    /\ calls = {}
    /\ mInput \in {Some(body) : body \in RequestBodies}
    /\ mResult = None
    /\ rm = IdleRound
    /\ clients = NoClients

ReqPostDebate == HandlePostDebate(1, 1)

ReqRound == \E r \in RunIds : RoundResolves(r, SharedProfiles)

ReqEvaluation == \E r \in RunIds : EvaluationResolves(r, ServerEvalReplies)

ReqSynthesis == \E r \in RunIds : SynthesisResolves(r, ServerSynthReplies)

NextRequest == ReqPostDebate \/ ReqRound \/ ReqEvaluation \/ ReqSynthesis

SpecRequest == InitRequest /\ [][NextRequest]_vars

(***************************************************************************)
(* validateDebateConfig on its own: one configuration in mInput, the       *)
(* field names of the errors it returns in mResult                         *)
(***************************************************************************)
ValidatedConfigs ==
    {DebateConfig(topic, models, maxRounds, threshold, moderator, "gpt-5") :
        topic \in {Topic, <<" ">>, <<>>},
        models \in {<<"deepseek", "gpt-5">>, <<"deepseek">>, <<"deepseek", "llama">>, <<>>},
        maxRounds \in {Whole(1), Num(15), Whole(0), Num(-10), NaN},
        threshold \in {Whole(0), Num(5), Whole(1), Num(12), Num(-1), NaN},
        moderator \in {"gemini-2.5-pro", "llama"}}

InitValidate ==
    /\ sessions = [s \in SessionIds |-> NoSession]
    /\ orch = [o \in OrchIds |-> NewOrchestrator]
    /\ runs = [r \in RunIds |-> IdleRun]
    /\ step = IdleStep
    /\ calls = {}
    /\ mInput \in {Some(config) : config \in ValidatedConfigs}
    /\ mResult = None
    /\ rm = IdleRound
    /\ clients = NoClients

Validate ==
    /\ mResult = None
    /\ mResult' = Some(validateDebateConfig(mInput.val))
    /\ UNCHANGED <<sessions, orch, runs, step, calls, mInput, rm, clients>>

NextValidate == Validate

SpecValidate == InitValidate /\ [][NextValidate]_vars

(***************************************************************************)
(* SpecSynth: synthesize applied to every round history of a bounded set   *)
(* that executeRound can return, under every outcome of the chat call      *)
(***************************************************************************)
MaxHistory == 2         \* rounds of a history handed to synthesize

LongText == Repeat("x", KeyPointLength + 1)

\* what the participants of one round resolve to: both answer, both answer
\* with other text, both fail every attempt, the first answers with blanks
\* only, the first answers with a long text, the first answers without text
SynthProfiles ==
    {<<Answers, Answers>>,
     <<<<ChatOk(<<" ", "b">>)>>, <<ChatOk(<<"c">>)>>>>,
     <<FailsEveryAttempt, FailsEveryAttempt>>,
     <<<<ChatOk(<<" ">>)>>, Answers>>,
     <<<<ChatOk(LongText)>>, Answers>>,
     <<AnswersNull, Answers>>}

SynthModels == <<"deepseek", "gpt-5">>

\* the histories: round i is what executeRound returns for profile i
Histories ==
    {[i \in 1..Len(ps) |-> executeRound(i, SynthModels, ps[i])] :
        ps \in Seqs(SynthProfiles, MaxHistory)}

SynthReplies ==
    {ChatErr(ErrNetwork), ChatErr(ErrAuth), ChatOk(<<>>), ChatOk(<<" ", "a", " ">>)}

InitSynth ==
    /\ sessions = [s \in SessionIds |-> NoSession]
    /\ orch = [o \in OrchIds |-> NewOrchestrator]
    /\ runs = [r \in RunIds |-> IdleRun]
    /\ step = IdleStep
    /\ calls = {}
    /\ mInput \in {Some([reply |-> reply, topic |-> Topic, rounds |-> rounds]) :
                      reply \in SynthReplies, rounds \in Histories}
    /\ mResult = None
    /\ rm = IdleRound
    /\ clients = NoClients

Synthesize ==
    /\ mResult = None
    /\ mResult' = Some(synthesize(mInput.val.reply, mInput.val.topic, mInput.val.rounds))
    /\ calls' = calls \cup SynthesizerRequests(mInput.val.rounds, "gpt-5")
    /\ UNCHANGED <<sessions, orch, runs, step, mInput, rm, clients>>

NextSynth == Synthesize

SpecSynth == InitSynth /\ [][NextSynth]_vars

(***************************************************************************)
(* evaluateConvergence and synthesize side by side, on round lists that    *)
(* may be empty                                                            *)
(***************************************************************************)
\* the function under test and its arguments
NoRoundsInputs ==
    {[fn |-> "evaluateConvergence", reply |-> reply, topic |-> Topic, rounds |-> rounds,
      threshold |-> threshold] :
        reply \in EvalReplies, rounds \in {<<>>, SomeRounds}, threshold \in Thresholds}
    \cup
    {[fn |-> "synthesize", reply |-> reply, topic |-> Topic, rounds |-> rounds,
      threshold |-> Num(5)] :
        reply \in SynthReplies, rounds \in {<<>>, SomeRounds}}

InitNoRounds ==
    /\ sessions = [s \in SessionIds |-> NoSession]
    /\ orch = [o \in OrchIds |-> NewOrchestrator]
    /\ runs = [r \in RunIds |-> IdleRun]
    /\ step = IdleStep
    /\ calls = {}
    /\ mInput \in {Some(input) : input \in NoRoundsInputs}
    /\ mResult = None
    /\ rm = IdleRound
    /\ clients = NoClients

EvaluateNoRounds == mInput.val.fn = "evaluateConvergence" /\ Evaluate

SynthesizeNoRounds == mInput.val.fn = "synthesize" /\ Synthesize

NextNoRounds == EvaluateNoRounds \/ SynthesizeNoRounds

SpecNoRounds == InitNoRounds /\ [][NextNoRounds]_vars

(***************************************************************************)
(* Properties                                                              *)
(***************************************************************************)
Returned(r) == runs[r].pc = "returned"

SessionOf(r) == sessions[runs[r].sid]

LastRound(sess) == sess.rounds[Len(sess.rounds)]

\* C1: when runDebate returns, the session has at most config.maxRounds rounds
\* and its status is 'completed'.
C1_RoundsWithinMaxRounds ==
    \A r \in RunIds :
        Returned(r) =>
            /\ NumLeq(Whole(Len(SessionOf(r).rounds)), SessionOf(r).config.maxRounds)
            /\ SessionOf(r).status = "completed"

ConvergedIn(r) ==
    /\ runs[r].pc # "unused"
    /\ runs[r].finalConvergenceAssessment.some
    /\ runs[r].finalConvergenceAssessment.val.isConverged

\* C2: once the assessment of the round just completed is converged, the run is
\* past its loop with status 'converged' and that round is the last one; it
\* issues no further participant query and adds no round; its result has
\* convergenceAchieved = TRUE and totalRounds = the number of that round.
C2_ConvergenceStopsTheRun ==
    /\ [](\A r \in RunIds :
            ConvergedIn(r) =>
                /\ runs[r].convergenceAchieved
                /\ runs[r].pc \in {"awaitSynth", "returned", "rejected"}
                /\ runs[r].pc = "awaitSynth" =>
                       /\ SessionOf(r).status = "converged"
                       /\ Len(SessionOf(r).rounds) = runs[r].roundNumber
                /\ runs[r].pc = "returned" =>
                       /\ runs[r].result.val.convergenceAchieved
                       /\ runs[r].result.val.totalRounds = runs[r].roundNumber)
    /\ [][\A r \in RunIds :
            (ConvergedIn(r) /\ Active(runs[r]) /\ step'.run = r) =>
                /\ step'.issued = 0
                /\ sessions'[runs[r].sid].rounds = SessionOf(r).rounds]_vars

\* a run converged at round 1 although two rounds were allowed
C2_Witness ==
    /\ Returned(1)
    /\ runs[1].result.val.convergenceAchieved
    /\ runs[1].result.val.totalRounds = 1
    /\ SessionOf(1).config.maxRounds = Whole(2)

\* C3: a run on a freshly created session in which no assessment is converged
\* executes exactly maxRounds rounds, has status 'max_rounds_reached' while the
\* synthesis is awaited and 'completed' after it, and returns
\* convergenceAchieved = FALSE with a non-empty finalAnswer.
C3_ExactlyMaxRoundsWithoutConvergence ==
    \A r \in RunIds :
        (runs[r].startStatus = "pending" /\ ~runs[r].convergenceAchieved) =>
            /\ runs[r].pc = "awaitSynth" =>
                   /\ Whole(Len(SessionOf(r).rounds)) = SessionOf(r).config.maxRounds
                   /\ SessionOf(r).status = "max_rounds_reached"
            /\ Returned(r) =>
                   /\ Whole(Len(SessionOf(r).rounds)) = SessionOf(r).config.maxRounds
                   /\ SessionOf(r).status = "completed"
                   /\ ~runs[r].result.val.convergenceAchieved
                   /\ runs[r].result.val.finalAnswer # <<>>

StatusEdges ==
    {<<"pending", "in_progress">>, <<"in_progress", "converged">>,
     <<"in_progress", "max_rounds_reached">>, <<"converged", "completed">>,
     <<"max_rounds_reached", "completed">>}

\* C4: every change of a session's status follows pending -> in_progress ->
\* (converged | max_rounds_reached) -> completed, and 'completed' is left only
\* for 'in_progress', by continueDebate.
C4_StatusLifecycle ==
    LET chain == <<step.from>> \o step.statuses IN
    \A i \in 1..(Len(chain) - 1) :
        \/ chain[i] = chain[i + 1]
        \/ <<chain[i], chain[i + 1]>> \in StatusEdges
        \/ /\ chain[i] = "completed"
           /\ chain[i + 1] = "in_progress"
           /\ step.op = "continueDebate"

\* C5: a session whose status is 'completed' has a finalAnswer that is present
\* and non-empty.
C5_CompletedHasFinalAnswer ==
    \A s \in SessionIds :
        (sessions[s].exists /\ sessions[s].status = "completed") =>
            /\ sessions[s].finalAnswer.some
            /\ sessions[s].finalAnswer.val # <<>>

\* C6: the round at position i of session.rounds has roundNumber = i.
C6_RoundNumbersContiguous ==
    \A s \in SessionIds :
        sessions[s].exists =>
            \A i \in 1..Len(sessions[s].rounds) : sessions[s].rounds[i].roundNumber = i

\* rounds appended by a continuation after the first run had ended
C6_Witness ==
    /\ sessions[1].exists
    /\ Len(sessions[1].rounds) = 4
    /\ runs[1].op = "continueDebate"
    /\ Returned(1)

\* C9: a run whose result has convergenceAchieved = TRUE ended with at most
\* maxRounds rounds, and the last round's convergenceCheck is converged with a
\* confidenceScore >= the configured threshold.
C9_ConvergedResult ==
    \A r \in RunIds :
        (Returned(r) /\ runs[r].result.val.convergenceAchieved) =>
            /\ NumLeq(Whole(runs[r].result.val.totalRounds), SessionOf(r).config.maxRounds)
            /\ LastRound(SessionOf(r)).convergenceCheck.some
            /\ LastRound(SessionOf(r)).convergenceCheck.val.isConverged
            /\ NumGeq(LastRound(SessionOf(r)).convergenceCheck.val.confidenceScore,
                      SessionOf(r).config.convergenceThreshold)

\* C10: whatever the evaluator call resolved to, the confidenceScore returned by
\* evaluateConvergence is a finite number in [0, 1].
C10_ScoreBounded ==
    mResult.some =>
        /\ IsFinite(mResult.val.confidenceScore)
        /\ NumLeq(Whole(0), mResult.val.confidenceScore)
        /\ NumLeq(mResult.val.confidenceScore, Whole(1))

\* a reply parsed successfully whose raw score lies above 1
C10_Witness ==
    /\ mResult.some
    /\ mInput.val.reply = ChatOk(<<Prose, Obj(JBool(TRUE), JNum(Num(15)), JStr)>>)
    /\ mInput.val.rounds # <<>>
    /\ mResult.val.reasoning = <<"r">>
    /\ mResult.val.confidenceScore = Whole(1)

\* C7: a session never has two orchestrator runs active at the same time.
C7_OneActiveRunPerSession ==
    \A r, q \in RunIds :
        (Active(runs[r]) /\ Active(runs[q]) /\ runs[r].sid = runs[q].sid) => r = q

\* C8: every evaluator request of a session goes to that session's
\* moderatorModel and every synthesis request to its synthesizerModel.
C8_OwnModeratorAndSynthesizer ==
    \A c \in calls :
        /\ c.kind = "moderator" => c.model = sessions[c.sid].config.moderatorModel
        /\ c.kind = "synthesizer" => c.model = sessions[c.sid].config.synthesizerModel

\* the three typeof checks of parseConvergenceResponse pass
WellTyped(obj) ==
    /\ obj.isConverged.ty = "boolean"
    /\ obj.confidenceScore.ty = "number"
    /\ obj.reasoning.ty = "string"

\* the evaluator call resolved with a reply that parses into the three typed fields
SuccessfullyParsed(input) ==
    /\ input.rounds # <<>>
    /\ input.reply.ok
    /\ input.reply.content # <<>>
    /\ LET m == JsonMatch(input.reply.content) IN
       m.some /\ JsonParses(m.val) /\ WellTyped(m.val[1])

\* the object a successfully parsed reply carries
RawObject(input) == JsonMatch(input.reply.content).val[1]

\* x clamped to [0, 1], for a number x that is not NaN
ClampedTo01(x) ==
    IF NumLess(x, Whole(0)) THEN Whole(0)
    ELSE IF NumGreater(x, Whole(1)) THEN Whole(1)
    ELSE x

\* C11: for every successfully parsed evaluator reply the returned isConverged
\* is (raw isConverged flag) AND (score clamped to [0,1] >= threshold).
C11_DecisionIsFlagAndThreshold ==
    (mResult.some /\ SuccessfullyParsed(mInput.val)) =>
        LET raw == RawObject(mInput.val) IN
        mResult.val.isConverged =
            (raw.isConverged.b
                /\ NumGeq(ClampedTo01(raw.confidenceScore.n), mInput.val.threshold))

\* a reply claiming convergence with a score below the threshold is not converged
C11_Witness ==
    /\ mResult.some
    /\ SuccessfullyParsed(mInput.val)
    /\ RawObject(mInput.val).isConverged.b
    /\ RawObject(mInput.val).confidenceScore.n = Num(3)
    /\ mInput.val.threshold = Num(5)
    /\ ~mResult.val.isConverged

\* the evaluator failed: the call was rejected, the reply was empty, or the
\* reply does not parse into the three typed fields
EvaluatorFailed(input) == input.rounds # <<>> /\ ~SuccessfullyParsed(input)

\* C12: on any evaluator failure evaluateConvergence returns isConverged = FALSE,
\* confidenceScore = 0 and a reasoning that contains the marker "failed".
C12_FallbackCarriesMarker ==
    (mResult.some /\ EvaluatorFailed(mInput.val)) =>
        /\ ~mResult.val.isConverged
        /\ mResult.val.confidenceScore = Whole(0)
        /\ Contains(mResult.val.reasoning, "failed")

\* C13: whatever the chat-client calls of a run resolve to, runDebate does
\* not reject: a run that has ended has returned, with the session completed.
C13_RunNeverRejects ==
    \A r \in RunIds :
        /\ runs[r].pc # "rejected"
        /\ Returned(r) => SessionOf(r).status = "completed"

\* the chatCompletion requests sent for participant i in the round
PartCalls(i) == {c \in rm.issued : c.who = i}

\* the attempt ended with an HTTP 401 Unauthorized
AuthFailure(outcome) == ~outcome.ok /\ IsUnauthorized(outcome.err)

\* every attempt of the participant failed
AllFailed(part) == \A k \in 1..Len(part.outcomes) : ~part.outcomes[k].ok

\* C14: in one round a participant is queried at most 3 times, a further attempt
\* follows a failed one only, a success ends the attempts, and a participant
\* recorded as failed without any authentication failure was attempted 3 times.
C14_AttemptsPerParticipant ==
    rm.phase # "idle" =>
        \A i \in 1..Len(rm.parts) :
            LET part == rm.parts[i]
                n == Cardinality(PartCalls(i))
            IN  /\ n <= 3
                /\ {c.attempt : c \in PartCalls(i)} = 1..n
                /\ \A k \in 2..n : ~part.outcomes[k - 1].ok
                /\ \A k \in 1..Len(part.outcomes) :
                       part.outcomes[k].ok =>
                           k = Len(part.outcomes) /\ k = n /\ part.state = "done"
                /\ (/\ part.state = "done"
                    /\ part.response.val.error.some
                    /\ \A k \in 1..Len(part.outcomes) : ~AuthFailure(part.outcomes[k]))
                       => n = 3

\* C15: an attempt that fails with an unauthorized error is the participant's
\* last one: the participant is recorded as failed in the same step, without a
\* backoff wait, and that step leaves the other participants as they are.
C15_UnauthorizedShortCircuits ==
    /\ [](rm.phase # "idle" =>
            \A i \in 1..Len(rm.parts) :
                \A k \in 1..Len(rm.parts[i].outcomes) :
                    AuthFailure(rm.parts[i].outcomes[k]) =>
                        /\ k = Len(rm.parts[i].outcomes)
                        /\ rm.parts[i].state = "done"
                        /\ rm.parts[i].response.val.error.some
                        /\ Cardinality(PartCalls(i)) = k)
    /\ [][(rm.phase = "running" /\ rm'.phase = "running") =>
            \A i \in 1..Len(rm.parts) :
                (/\ Len(rm'.parts[i].outcomes) = Len(rm.parts[i].outcomes) + 1
                 /\ AuthFailure(rm'.parts[i].outcomes[Len(rm'.parts[i].outcomes)])) =>
                    /\ rm'.issued = rm.issued
                    /\ \A j \in 1..Len(rm.parts) : j # i => rm'.parts[j] = rm.parts[j]]_vars

\* the first participant was unauthorized at once, the second answered on its
\* second attempt
C15_Witness ==
    /\ rm.phase = "returned"
    /\ rm.parts[1].outcomes = <<ChatErr(ErrAuth)>>
    /\ Len(rm.parts[2].outcomes) = 2
    /\ ~rm.parts[2].response.val.error.some

\* C16: a participant whose every attempt failed has an entry with empty content
\* and a non-empty error in the returned round, and every entry is what the
\* participant's own attempts make it, whatever the other participants did.
C16_FailedParticipantKeepsEntry ==
    rm.phase = "returned" =>
        LET resps == rm.result.val.responses IN
        /\ Len(resps) = Len(rm.models)
        /\ \A i \in 1..Len(rm.models) :
               /\ AllFailed(rm.parts[i]) =>
                      /\ resps[i].model = rm.models[i]
                      /\ resps[i].content = <<>>
                      /\ resps[i].error.some
                      /\ resps[i].error.val # <<>>
               /\ resps[i] = getAgentResponse(rm.models[i], rm.parts[i].outcomes)

\* the first participant failed three times, the second answered
C16_Witness ==
    /\ rm.phase = "returned"
    /\ AllFailed(rm.parts[1])
    /\ Len(rm.parts[1].outcomes) = 3
    /\ rm.result.val.responses[2] = AgentResponse(rm.models[2], AgentText, None)

\* C17: the returned round has one response per entry of config.models, and
\* the i-th response is the one of the i-th participant.
C17_ResponsesInParticipantOrder ==
    rm.phase = "returned" =>
        LET resps == rm.result.val.responses IN
        /\ Len(resps) = Len(rm.models)
        /\ \A i \in 1..Len(rm.models) :
               /\ resps[i] = rm.parts[i].response.val
               /\ resps[i].model = rm.models[i]

\* two participants of the same model, the second resolved first, with
\* different responses
C17_Witness ==
    /\ rm.phase = "returned"
    /\ rm.models = <<"gpt-5", "gpt-5">>
    /\ rm.doneOrder = <<2, 1>>
    /\ rm.parts[1].response # rm.parts[2].response

\* C18: once executeRound has started, the first attempt of every participant
\* has been sent; the round is returned only when every participant's attempt
\* sequence has resolved.
C18_AllIssuedAllResolved ==
    /\ rm.phase # "idle" =>
           \A i \in 1..Len(rm.models) : \E c \in rm.issued : c.who = i /\ c.attempt = 1
    /\ rm.phase = "returned" =>
           \A i \in 1..Len(rm.models) :
               rm.parts[i].state = "done" /\ rm.parts[i].response.some

\* the second participant's first query is in flight while the first one is
\* waiting to retry
C18_Witness ==
    /\ rm.phase = "running"
    /\ rm.parts[1].state = "backoff"
    /\ rm.parts[1].attempt = 2
    /\ rm.parts[2].state = "calling"
    /\ rm.parts[2].attempt = 1

\* C19: every request of the round carries the message list built from the
\* rounds the session had when the round started.
C19_SameContextForEveryAttempt ==
    rm.phase # "idle" =>
        /\ rm.contextMessages = buildContextMessages(rm.topic, rm.startRounds)
        /\ \A c \in rm.issued : c.messages = rm.contextMessages

\* a third attempt was sent after the session had grown
C19_Witness ==
    /\ rm.phase = "running"
    /\ rm.rounds # rm.startRounds
    /\ \E c \in rm.issued : c.attempt = 3
    /\ \A i \in 1..Len(rm.parts) : Len(rm.parts[i].outcomes) = 0 \/ i = 1

\* C20: the context is one system message, one user message with the topic, one
\* assistant message per prior response in order, tagged with its participant,
\* and a trailing user instruction exactly when a prior round exists.
C20_ContextStructure ==
    rm.phase # "idle" =>
        LET m == rm.contextMessages
            resps == AllResponses(rm.startRounds)
            n == Len(resps)
        IN  /\ Len(m) = 2 + n + (IF rm.startRounds # <<>> THEN 1 ELSE 0)
            /\ m[1].role = "system"
            /\ m[2].role = "user"
            /\ SubSeq(m[2].content, 2, Len(m[2].content)) = rm.topic
            /\ \A k \in 1..n :
                   /\ m[2 + k].role = "assistant"
                   /\ m[2 + k].content[2] = resps[k].model
                   /\ SubSeq(m[2 + k].content, 4, Len(m[2 + k].content))
                          = ContentText(resps[k].content)
            /\ rm.startRounds # <<>> => m[Len(m)].role = "user" /\ Len(m) = n + 3
            /\ rm.startRounds = <<>> => Len(m) = 2

\* two prior rounds of two responses each, one of them errored
C20_Witness ==
    /\ rm.phase # "idle"
    /\ Len(rm.startRounds) = 2
    /\ Len(rm.contextMessages) = 7
    /\ \E k \in 1..4 : AllResponses(rm.startRounds)[k].error.some

\* the step just taken is a call of continueDebate, in frame r, on a session
\* that was completed
ContinuesCompleted(r) ==
    /\ step' # step
    /\ step'.op = "continueDebate"
    /\ step'.run = r
    /\ step'.from = "completed"

\* C21: continueDebate on a completed session sets the status to 'in_progress',
\* clears finalAnswer, raises maxRounds by exactly 3 and enters the loop; the
\* rounds present before the call keep their position and content, none of them
\* is executed again, and new rounds are appended after them.
C21_ContinuationKeepsRounds ==
    [][\A r \in RunIds :
          LET before == sessions[runs'[r].sid]
              after == sessions'[runs'[r].sid]
          IN  /\ ContinuesCompleted(r) =>
                     /\ step'.statuses # <<>>
                     /\ step'.statuses[1] = "in_progress"
                     /\ after.finalAnswer = None
                     /\ IsFinite(before.config.maxRounds)
                     /\ after.config.maxRounds
                            = Num(before.config.maxRounds.v + 10 * 3)
                     /\ after.rounds = before.rounds
                     /\ runs'[r].pc = "awaitRound"
                     /\ runs'[r].roundNumber = Len(before.rounds) + 1
              /\ (/\ runs[r].op = "continueDebate"
                  /\ runs[r].startStatus = "completed"
                  /\ Active(runs[r])
                  /\ step'.run = r) =>
                     /\ Len(after.rounds) \in {Len(before.rounds), Len(before.rounds) + 1}
                     /\ \A i \in 1..Len(before.rounds) :
                            /\ after.rounds[i].roundNumber = before.rounds[i].roundNumber
                            /\ after.rounds[i].responses = before.rounds[i].responses
                     /\ \A i \in 1..runs[r].startLen : after.rounds[i] = before.rounds[i]
                     /\ runs'[r].pc = "awaitRound" =>
                            runs'[r].roundNumber > runs[r].startLen]_vars

IsPrefix(a, b) == Len(a) <= Len(b) /\ SubSeq(b, 1, Len(a)) = a

\* C22: from one state of a session to the next, models, convergenceThreshold,
\* moderatorModel and synthesizerModel stay as they are, maxRounds does not
\* decrease and changes only in a continuation, the topic only grows at its
\* end, and a step that is not a continuation changes no configuration field.
C22_ConfigurationFrame ==
    [][\A s \in SessionIds :
          sessions[s].exists =>
              LET before == sessions[s].config
                  after == sessions'[s].config
              IN  /\ after.models = before.models
                  /\ after.convergenceThreshold = before.convergenceThreshold
                  /\ after.moderatorModel = before.moderatorModel
                  /\ after.synthesizerModel = before.synthesizerModel
                  /\ after.maxRounds = before.maxRounds
                         \/ NumGreater(after.maxRounds, before.maxRounds)
                  /\ after.maxRounds # before.maxRounds => step'.op = "continueDebate"
                  /\ IsPrefix(before.topic, after.topic)
                  /\ step'.op # "continueDebate" => after = before]_vars

\* a continuation with steering text has returned: the topic carries the text
\* after the original topic and maxRounds went from 1 to 4
C22_Witness ==
    /\ sessions[1].exists
    /\ sessions[1].status = "completed"
    /\ sessions[1].config.topic = Topic \o <<"\n\n[User Intervention]: ", "i">>
    /\ sessions[1].config.maxRounds = Whole(4)
    /\ \E r \in RunIds : runs[r].op = "continueDebate" /\ Returned(r)

\* the synthesizer's chat call was made and failed or returned no content
SynthesizerFailed(input) ==
    input.rounds # <<>> /\ (~input.reply.ok \/ input.reply.content = <<>>)

\* the reason the fallback reports for the failed call
FailureReason(reply) ==
    IF reply.ok THEN <<"No response content from synthesizer">> ELSE reply.err

\* text ends with suffix
EndsWith(text, suffix) ==
    /\ Len(text) >= Len(suffix)
    /\ SubSeq(text, Len(text) - Len(suffix) + 1, Len(text)) = suffix

\* C23: when the synthesizer's chat call fails or returns no content,
\* synthesize does not throw, whatever rounds the round executor returned; it
\* resolves to a non-empty text that reports the reason of the failure.
C23_FallbackNeverThrows ==
    (mResult.some /\ SynthesizerFailed(mInput.val)) =>
        /\ ~mResult.val.thrown
        /\ mResult.val.text # <<>>
        /\ EndsWith(mResult.val.text,
                    <<"\nSynthesis Error: ">> \o FailureReason(mInput.val.reply))

\* the fallback document was written
FallbackWritten == mResult.some /\ SynthesizerFailed(mInput.val) /\ ~mResult.val.thrown

\* number of occurrences of a token in a text
Count(text, token) == Cardinality({i \in 1..Len(text) : text[i] = token})

Occurs(text, part) ==
    \E i \in 1..(Len(text) - Len(part) + 1) : SubSeq(text, i, i + Len(part) - 1) = part

\* the participants with a response that has no error and is not blank
Contributors(resps) == {resps[i].model : i \in {k \in 1..Len(resps) : Contributes(resps[k])}}

\* the earliest such response of a participant
EarliestContribution(resps, model) ==
    resps[CHOOSE i \in 1..Len(resps) :
              /\ Contributes(resps[i])
              /\ resps[i].model = model
              /\ \A j \in 1..(i - 1) : ~(Contributes(resps[j]) /\ resps[j].model = model)]

\* C24: the fallback document holds exactly one excerpt per contributing
\* participant, and it is the first 200 characters of that participant's
\* earliest response that has no error and is not blank.
C24_OneExcerptPerParticipant ==
    FallbackWritten =>
        LET resps == AllResponses(mInput.val.rounds)
            text == mResult.val.text
        IN  /\ Count(text, "- ") = Cardinality(Contributors(resps))
            /\ \A model \in Contributors(resps) :
                   Occurs(text,
                          <<model, ":\n", "- ">>
                              \o Take(Trim(EarliestContribution(resps, model).content),
                                      KeyPointLength))

\* the positions in session.rounds of the rounds executed in run r
ExecutedIn(r) == (runs[r].startLen + 1)..Len(SessionOf(r).rounds)

\* C25: in a run the evaluator is called once per executed round, in the step
\* that appends the round and before the next round's queries are sent; its
\* assessment, made on a non-empty round list, is attached to that round, and
\* when the run has returned every round executed in it carries a
\* convergenceCheck.
C25_EvaluatedOncePerRound ==
    \A r \in RunIds :
        runs[r].pc # "unused" =>
            LET rounds == SessionOf(r).rounds IN
            /\ runs[r].evals = Cardinality(ExecutedIn(r))
            /\ \A i \in ExecutedIn(r) :
                   \/ /\ rounds[i].convergenceCheck.some
                      /\ rounds[i].convergenceCheck.val.reasoning # <<"No rounds to evaluate">>
                   \/ runs[r].pc = "awaitEval" /\ i = Len(rounds)
            /\ runs[r].pc = "awaitEval" =>
                   /\ ExecutedIn(r) # {}
                   /\ runs[r].roundIdx = Len(rounds)
                   /\ ~rounds[Len(rounds)].convergenceCheck.some
            /\ runs[r].pc = "returned" =>
                   /\ runs[r].finalConvergenceAssessment.some = (ExecutedIn(r) # {})
                   /\ ExecutedIn(r) # {} =>
                          LastRound(SessionOf(r)).convergenceCheck
                              = runs[r].finalConvergenceAssessment

\* a run that executed two rounds has returned
C25_Witness ==
    /\ Returned(1)
    /\ runs[1].startLen = 0
    /\ runs[1].evals = 2
    /\ Len(SessionOf(1).rounds) = 2
    /\ \A i \in 1..2 : SessionOf(1).rounds[i].convergenceCheck.some

\* C26: when a run on a session with rounds has returned (a first run, a
\* repeated runDebate, a continuation), session.convergenceAssessment is
\* defined and is the convergenceCheck of the last round of session.rounds.
C26_SessionAssessmentIsLastCheck ==
    \A r \in RunIds :
        (Returned(r) /\ SessionOf(r).rounds # <<>>) =>
            /\ SessionOf(r).convergenceAssessment.some
            /\ SessionOf(r).convergenceAssessment = LastRound(SessionOf(r)).convergenceCheck

\* C27: the result of a run has finalAnswer = session.finalAnswer and
\* totalRounds = the length of session.rounds; its convergenceAchieved is true
\* exactly when the run set the status 'converged', and false exactly when it
\* set 'max_rounds_reached'.
C27_ResultMatchesSession ==
    \A r \in RunIds :
        Returned(r) =>
            LET result == runs[r].result.val IN
            /\ SessionOf(r).finalAnswer = Some(result.finalAnswer)
            /\ result.totalRounds = Len(SessionOf(r).rounds)
            /\ result.convergenceAchieved = ("converged" \in runs[r].passed)
            /\ (~result.convergenceAchieved) = ("max_rounds_reached" \in runs[r].passed)

\* C28: onRoundComplete is called once for every round executed in the run, in
\* round order, in the step that appends the round (so before the next round
\* starts), and never for a round the session had before the run.
C28_RoundCallbackOncePerRound ==
    \A r \in RunIds :
        runs[r].pc # "unused" =>
            /\ Len(runs[r].notified) = Cardinality(ExecutedIn(r))
            /\ \A k \in 1..Len(runs[r].notified) :
                   /\ runs[r].notified[k]
                          = SessionOf(r).rounds[runs[r].startLen + k].roundNumber
                   /\ runs[r].notified[k] > runs[r].startLen
                   /\ k > 1 => runs[r].notified[k] > runs[r].notified[k - 1]

\* a continuation of a one-round session has executed rounds 2, 3 and 4
C28_Witness ==
    /\ Returned(1)
    /\ runs[1].op = "continueDebate"
    /\ runs[1].startLen = 1
    /\ runs[1].notified = <<2, 3, 4>>

\* the responses of the rounds executed in run r
ResponsesOf(r) ==
    AllResponses(SubSeq(SessionOf(r).rounds, runs[r].startLen + 1, Len(SessionOf(r).rounds)))

\* C29: onAgentResponse is called once for every response of every round
\* executed in the run, degraded responses included.
C29_AgentCallbackOncePerResponse ==
    \A r \in RunIds :
        runs[r].pc # "unused" => Len(runs[r].agentNotified) = Len(ResponsesOf(r))

\* a value the request supplies is invalid: blank topic, fewer than 2 models or
\* an unknown one, maxRounds <= 0, convergenceThreshold outside [0, 1]
SuppliesInvalid(body) ==
    \/ Trim(body.topic) = <<>>
    \/ /\ body.models.some
       /\ \/ Len(body.models.val) < 2
          \/ \E i \in 1..Len(body.models.val) : body.models.val[i] \notin AVAILABLE_MODELS
    \/ body.maxRounds.some /\ NumLeq(body.maxRounds.val, Whole(0))
    \/ /\ body.convergenceThreshold.some
       /\ \/ NumLess(body.convergenceThreshold.val, Whole(0))
          \/ NumGreater(body.convergenceThreshold.val, Whole(1))

\* C30: a start request that supplies an invalid value is refused with no
\* session created, no run started and no chat-client call made; the session
\* of an accepted request carries every value the request supplied.
C30_InvalidRequestRefused ==
    mResult.some =>
        LET body == mInput.val IN
        /\ SuppliesInvalid(body) =>
               /\ mResult.val = Refused
               /\ \A s \in SessionIds : ~sessions[s].exists
               /\ \A r \in RunIds : runs[r].pc = "unused"
               /\ calls = {}
               /\ step.issued = 0
        /\ \A s \in SessionIds :
               sessions[s].exists =>
                   /\ sessions[s].config.topic = body.topic
                   /\ body.models.some => sessions[s].config.models = body.models.val
                   /\ body.maxRounds.some =>
                          sessions[s].config.maxRounds = body.maxRounds.val
                   /\ body.convergenceThreshold.some =>
                          sessions[s].config.convergenceThreshold
                              = body.convergenceThreshold.val
                   /\ body.moderatorModel.some =>
                          sessions[s].config.moderatorModel = body.moderatorModel.val

\* C31: a session just created from a valid configuration has no rounds, status
\* 'pending', no finalAnswer and no convergenceAssessment, and the sessions
\* created so far, also from the same configuration, have pairwise distinct ids.
C31_NewSessionIsPendingAndUnique ==
    /\ step.op = "createSession" =>
           /\ sessions[step.sid].exists
           /\ IsValid(sessions[step.sid].config)
           /\ sessions[step.sid].rounds = <<>>
           /\ sessions[step.sid].status = "pending"
           /\ sessions[step.sid].finalAnswer = None
           /\ sessions[step.sid].convergenceAssessment = None
    /\ \A s, t \in SessionIds :
           (sessions[s].exists /\ sessions[t].exists /\ s # t) =>
               sessions[s].id # sessions[t].id

\* a second session was just created from the configuration of the first,
\* which is completed by now
C31_Witness ==
    /\ step.op = "createSession"
    /\ step.sid = 2
    /\ sessions[1].exists
    /\ sessions[1].status = "completed"
    /\ sessions[1].config = sessions[2].config
    /\ sessions[1].id # sessions[2].id

\* what the configuration contract asks of each field
TopicGiven(config) == Trim(config.topic) # <<>>

ModelsKnown(config) ==
    /\ Len(config.models) >= 2
    /\ \A i \in 1..Len(config.models) : config.models[i] \in AVAILABLE_MODELS

MaxRoundsPositive(config) == NumGreater(config.maxRounds, Whole(0))

ThresholdInRange(config) ==
    /\ NumGeq(config.convergenceThreshold, Whole(0))
    /\ NumLeq(config.convergenceThreshold, Whole(1))

Names(errors, field) == \E i \in 1..Len(errors) : errors[i] = field

\* C32: validateDebateConfig returns no error for a configuration with a
\* non-blank topic, at least two known models, maxRounds > 0, a threshold
\* in [0,1] and known moderator and synthesizer models, and for each of
\* these constraints that is violated it returns an error whose field names
\* the offending field.
C32_ValidationMatchesConstraints ==
    mResult.some =>
        LET config == mInput.val
            errors == mResult.val
        IN  /\ (/\ TopicGiven(config) /\ ModelsKnown(config)
                /\ MaxRoundsPositive(config) /\ ThresholdInRange(config)
                /\ config.moderatorModel \in AVAILABLE_MODELS
                /\ config.synthesizerModel \in AVAILABLE_MODELS) => errors = <<>>
            /\ ~TopicGiven(config) => Names(errors, "topic")
            /\ ~ModelsKnown(config) => Names(errors, "models")
            /\ ~MaxRoundsPositive(config) => Names(errors, "maxRounds")
            /\ ~ThresholdInRange(config) => Names(errors, "convergenceThreshold")

\* C33: with an empty round list neither evaluateConvergence nor synthesize
\* sends a chat request; evaluateConvergence returns isConverged = false,
\* confidenceScore = 0 and a non-empty reasoning, synthesize returns a
\* non-empty text that does not depend on the reply.
C33_EmptyRoundsNeedNoCall ==
    (mResult.some /\ mInput.val.rounds = <<>>) =>
        /\ calls = {}
        /\ mInput.val.fn = "evaluateConvergence" =>
               /\ mResult.val.isConverged = FALSE
               /\ mResult.val.confidenceScore = Whole(0)
               /\ mResult.val.reasoning # <<>>
        /\ mInput.val.fn = "synthesize" =>
               /\ ~mResult.val.thrown
               /\ Trim(mResult.val.text) # <<>>

C33_Witness ==
    /\ mResult.some
    /\ mInput.val.rounds = <<>>
    /\ mInput.val.reply.ok
    /\ mInput.val.reply.content # <<>>
    /\ mInput.val.fn = "synthesize"

\* C34: the error text of a degraded response states as many attempts as
\* chatCompletion calls were made for that participant in that round, after
\* three failed attempts as well as after an unauthorized failure that ended
\* the attempts early, and it ends with the message of the last failure.
C34_ErrorTextCountsCalls ==
    rm.phase # "idle" =>
        \A i \in 1..Len(rm.parts) :
            LET part == rm.parts[i] IN
            (part.state = "done" /\ part.response.val.error.some) =>
                part.response.val.error.val =
                    <<"Failed after ", ToString(Cardinality(PartCalls(i))), " attempts: ">>
                        \o part.outcomes[Len(part.outcomes)].err

\* the position of the first JSON object of the reply, 0 if it has none or if
\* an opening brace of the prose comes before it
FirstObject(content) ==
    LET objs == {i \in 1..Len(content) : content[i].t = "obj"} IN
    IF objs = {} THEN 0
    ELSE LET first == CHOOSE i \in objs : \A j \in objs : i <= j IN
         IF \E k \in 1..(first - 1) : content[k].t = "{" THEN 0 ELSE first

IsParseFallback(a) ==
    /\ ~a.isConverged
    /\ a.confidenceScore = Whole(0)
    /\ Len(a.reasoning) >= 2
    /\ SubSeq(a.reasoning, 1, 2) = <<"Failed", " to parse moderator response: ">>

\* C35: when the evaluator's reply holds a JSON object, whatever prose stands
\* around it (closing or opening braces and further objects after it
\* included), the assessment is computed from the first object if that has
\* the three typed fields, and is the parse-failure fallback if it lacks one
\* or has one of the wrong type.
C35_FirstObjectDecides ==
    (/\ mResult.some
     /\ mInput.val.rounds # <<>>
     /\ mInput.val.reply.ok
     /\ FirstObject(mInput.val.reply.content) # 0) =>
        LET content == mInput.val.reply.content
            obj == content[FirstObject(content)]
            score == ClampScore(obj.confidenceScore.n)
        IN  IF WellTyped(obj)
            THEN /\ mResult.val.confidenceScore = score
                 /\ mResult.val.isConverged =
                        (obj.isConverged.b /\ NumGeq(score, mInput.val.threshold))
                 /\ ~IsParseFallback(mResult.val)
            ELSE IsParseFallback(mResult.val)

\* frame r takes up a run in this step
Starts(r) == ~Active(runs[r]) /\ Active(runs'[r])

\* C36: a continue request on a completed session, with or without steering
\* text, clears finalAnswer, raises maxRounds by 3 and re-enters the loop with
\* the rounds the session has; the topic stays as it is or gets the steering
\* text of the request appended once.
C36_ContinueRequestResumes ==
    [][\A r \in RunIds :
          (/\ Starts(r)
           /\ sessions[runs'[r].sid].exists
           /\ sessions[runs'[r].sid].status = "completed") =>
              LET before == sessions[runs'[r].sid]
                  after == sessions'[runs'[r].sid]
              IN  /\ after.finalAnswer = None
                  /\ after.config.maxRounds =
                         NumAddWhole(before.config.maxRounds, ContinueIncrement)
                  /\ after.rounds = before.rounds
                  /\ after.status = "in_progress"
                  /\ \/ after.config.topic = before.config.topic
                     \/ after.config.topic =
                            before.config.topic \o <<"\n\n[User Intervention]: ", "i">>]_vars

SynthesizerCallsOf(r) == {c \in calls : c.kind = "synthesizer" /\ c.sid = runs[r].sid}

\* C37: if every chatCompletion call eventually resolves or rejects, every
\* run ends by returning; a round costs at most 3 calls per participant and
\* one evaluator call, no round is executed once the round count has reached
\* maxRounds, and at most one synthesizer call is made, after the last
\* evaluator call.
C37_RunTerminatesWithinBounds ==
    /\ [](\A r \in RunIds :
            /\ (step.run = r /\ step.op = "round") =>
                   Len(SessionOf(r).config.models) + step.issued
                       <= maxRetries * Len(SessionOf(r).config.models)
            /\ runs[r].pc # "unused" =>
                   /\ runs[r].evals = Len(SessionOf(r).rounds) - runs[r].startLen
                   /\ Cardinality(SynthesizerCallsOf(r)) <= 1
            /\ runs[r].pc = "awaitRound" =>
                   NumLess(Whole(Len(SessionOf(r).rounds)), SessionOf(r).config.maxRounds)
            /\ runs[r].pc = "awaitEval" => SynthesizerCallsOf(r) = {}
            /\ runs[r].pc # "rejected")
    /\ \A r \in RunIds : Active(runs[r]) ~> Returned(r)

\* rounds executed by run r so far
NewRounds(r) == Len(SessionOf(r).rounds) - runs[r].startLen

\* C38: a call of continueDebate on a completed session has executed at least
\* one new round when the session is completed again, and at most
\* maxRounds before the call + 3 - rounds before the call (maxRounds after the
\* call is maxRounds before it + 3).
C38_ContinuationAddsRounds ==
    \A r \in RunIds :
        (/\ runs[r].op = "continueDebate"
         /\ runs[r].startStatus = "completed"
         /\ Returned(r)) =>
            /\ NewRounds(r) >= 1
            /\ NumLeq(Whole(NewRounds(r)),
                      NumAddWhole(SessionOf(r).config.maxRounds, 0 - runs[r].startLen))

\* C39: in every state of a session reached through createSession, runDebate
\* and continueDebate, each awaited before the next call, finalAnswer is
\* present exactly when the status is 'completed'; and finalAnswer,
\* convergenceAssessment and the status 'completed' are assigned in one step.
C39_AnswerIffCompleted ==
    /\ [](\A s \in SessionIds :
            sessions[s].exists =>
                (sessions[s].finalAnswer.some <=> sessions[s].status = "completed"))
    /\ [][\A s \in SessionIds :
            (sessions[s].exists /\ sessions'[s].finalAnswer # sessions[s].finalAnswer
             /\ sessions'[s].finalAnswer.some) =>
                /\ sessions'[s].status = "completed"
                /\ sessions[s].status # "completed"
                /\ step'.op = "synthesis"
                /\ sessions'[s].convergenceAssessment =
                       runs[step'.run].finalConvergenceAssessment]_vars

\* the client has been sent the final event of a run
HasFinalEvent(c) == clients[c].events \cap {"complete", "error"} # {}

\* C40: every client that subscribes to the session's event stream is
\* eventually sent a 'complete' or an 'error' event, whether it subscribes
\* while a run is in progress or after the run has ended, given that every
\* run terminates.
C40_SubscriberGetsFinalEvent ==
    \A c \in ClientIds : clients[c].subscribed ~> HasFinalEvent(c)

====
